---- MODULE Spec2Model ----
(***************************************************************************)
(* gittensor-db: the repository layer over one PostgreSQL connection.      *)
(*                                                                         *)
(* The storage engine and the connection handle are the environment: a     *)
(* table is the set of its rows, a statement of queries.py is the function *)
(* it computes on tables, and every call on the connection (cursor,        *)
(* execute, commit, close, rollback) may raise.  Which call raises during  *)
(* one operation is the operation's `fault` input.  Rows come back to the  *)
(* mappers as dictionaries, as the mappers' signatures say.                *)
(*                                                                         *)
(* Strings that the code takes apart (split('/')) are sequences of         *)
(* one-character strings; strings it only stores are TLA+ strings.         *)
(* An optional value is a sequence of length at most one: None is <<>>,    *)
(* a present value v is <<v>>.                                             *)
(***************************************************************************)
EXTENDS Integers, Sequences, FiniteSets, TLC

\* ------------------------------------------------------------------ bounds
\* Rows over the tables the built repositories write; writes that would
\* exceed it are not taken.
MaxRows == 2
\* Longest list handed to a bulk or list operation.
MaxBulk == 2
\* Timestamps range over 0..MaxClock.
MaxClock == 1
\* Calls of migrate() on one connection.
MaxRuns == 2
\* Most statements in one schema script.
MaxStatements == 2
\* Longest filename a FileChange is constructed with.
MaxName == 3

\* --------------------------------------------------------- program constants
\* page_size of every execute_values call.
PageSize == 100

VARIABLES
    db,       \* committed content of the six tables
    txn,      \* the connection's transaction: "idle", "open" or "failed"
    built,    \* the repository objects constructed on the connection
    lastOp,   \* the call in progress of being returned to the caller
    schema,   \* committed statements of the schema scripts
    migrator, \* the DatabaseMigrator's run: position, history and result
    shared    \* callers running at the same time on the one connection

vars == <<db, txn, built, lastOp, schema, migrator, shared>>

\* ------------------------------------------------------------ python values
None == <<>>
Some(v) == <<v>>
\* `if x:` for an optional string: None and "" are false.
Truthy(opt) == opt # None /\ opt[1] # <<>>

Max(S) == CHOOSE x \in S : \A y \in S : y <= x
Rep(x, n) == [i \in 1..n |-> x]
\* Every sequence over S of length at most n.
SeqsUpTo(S, n) == UNION {[1..k -> S] : k \in 0..n}
\* Every order in which the rows S can come back.
Perms(S) == {s \in [1..Cardinality(S) -> S] : \A x \in S : \E i \in DOMAIN s : s[i] = x}
Range(s) == {s[i] : i \in DOMAIN s}

\* str.split(sep)
RECURSIVE split(_, _)
split(s, sep) ==
    IF \E i \in 1..Len(s) : s[i] = sep
    THEN LET i == CHOOSE k \in 1..Len(s) : s[k] = sep /\ \A j \in 1..(k - 1) : s[j] # sep
         IN  <<SubSeq(s, 1, i - 1)>> \o split(SubSeq(s, i + 1, Len(s)), sep)
    ELSE <<s>>

\* text comparison of ORDER BY, by character code
CharRank(c) ==
    CASE c = "." -> 46 [] c = "/" -> 47 [] c = "P" -> 80 [] c = "a" -> 97 [] OTHER -> 112
RECURSIVE TextLeq(_, _)
TextLeq(a, b) ==
    IF a = <<>> THEN TRUE
    ELSE IF b = <<>> THEN FALSE
    ELSE IF Head(a) # Head(b) THEN CharRank(Head(a)) < CharRank(Head(b))
    ELSE TextLeq(Tail(a), Tail(b))

\* ----------------------------------------------------------------- entities
\* Repository(name, owner); owner and name are free strings.
Components == { <<"a">>, <<"a", "/", "a">> }
Repositories == [name : Components, owner : Components]
\* Repository.full_name
full_name(repository) == repository.owner \o <<"/">> \o repository.name

\* full-name strings handed to store_repositories_bulk
BulkFullNames == { <<"a">>, <<"a", "/", "a">>, <<"a", "/", "a", "/", "a">> }
\* the repository names pull requests, issues and file changes refer to
RepoNames == { <<"a", "/", "a">>, <<"a", "/", "a", "/", "a">> }

\* Miner(uid, hotkey, github_id)
Miners ==
    { [uid |-> 1, hotkey |-> "h1", github_id |-> "g1"],
      [uid |-> 1, hotkey |-> "h2", github_id |-> "g1"],
      [uid |-> 2, hotkey |-> "h1", github_id |-> "g1"] }

\* PullRequest(number, repository_full_name, uid, hotkey, github_id, title,
\* author_login, merged_at, created_at, earned_score, ...); file_changes is
\* None until a read attaches a list.  The fields left out (author_login,
\* created_at, additions, deletions, commits, merged_by_login) are bound and
\* mapped back verbatim, like title.
PullRequest(number, repository_full_name, earned_score, merged_at) ==
    [number |-> number, repository_full_name |-> repository_full_name, uid |-> 1,
     uid_type |-> "int",
     hotkey |-> "h1", github_id |-> "g1", title |-> "t", merged_at |-> merged_at,
     earned_score |-> earned_score, file_changes |-> None]
\* A pull request whose uid is an np.int64 of the same value; uid_type is
\* type(pull_request.uid).
np_int64(pull_request) == [pull_request EXCEPT !.uid_type = "np.int64"]
PullRequests ==
    { PullRequest(1, <<"a", "/", "a">>, 0, 0),
      PullRequest(1, <<"a", "/", "a">>, 1, 0),
      PullRequest(2, <<"a", "/", "a">>, 0, 1),
      np_int64(PullRequest(2, <<"a", "/", "a">>, 0, 1)),
      PullRequest(1, <<"a", "/", "a", "/", "a">>, 0, 0) }
PrNumbers == {1, 2}

\* str.lower() on the characters of the model
Lower(c) == IF c = "P" THEN "p" ELSE c
\* variant: an extension kept in the case the filename has it
calculate_file_extension_keeps_case(filename) ==
    IF \E i \in DOMAIN filename : filename[i] = "."
    THEN LET parts == split(filename, ".") IN parts[Len(parts)]
    ELSE <<>>

\* FileChange._calculate_file_extension
calculate_file_extension(filename) ==
    IF \E i \in DOMAIN filename : filename[i] = "."
    THEN LET parts == split(filename, ".")
             last == parts[Len(parts)]
         IN  [i \in DOMAIN last |-> Lower(last[i])]
    ELSE <<>>

\* FileChange(...): __post_init__ fills file_extension when it is None.
FileChange(filename, changes, file_extension) ==
    [pr_number |-> 1, repository_full_name |-> <<"a", "/", "a">>, filename |-> filename,
     changes |-> changes,
     file_extension |-> IF file_extension = None
                        THEN Some(calculate_file_extension(filename))
                        ELSE file_extension,
     id |-> None]
\* the file changes a caller persists: built without an extension, built
\* with an explicit empty one, and one whose filename is empty
FileChanges ==
    { FileChange(<<"a", ".", "P">>, 1, None),
      FileChange(<<"a", ".", "P">>, 2, Some(<<>>)),
      FileChange(<<>>, 1, None) }

\* Issue(number, pr_number, repository_full_name, title, created_at, closed_at)
Issue(number, title, created_at) ==
    [number |-> number, pr_number |-> 1, repository_full_name |-> <<"a", "/", "a">>,
     title |-> title, created_at |-> created_at, closed_at |-> None]
Issues == { Issue(1, "t", 0), Issue(1, "u", 0), Issue(2, "t", 1) }

\* MinerEvaluation(uid, hotkey, ..., pull_requests, stored_total_prs)
MinerEvaluation(uid, pull_requests, stored_total_prs) ==
    [uid |-> uid, hotkey |-> "h1", id |-> None, evaluation_timestamp |-> None,
     pull_requests |-> pull_requests, stored_total_prs |-> stored_total_prs]
MinerEvaluations ==
    { MinerEvaluation(1, <<>>, None),
      MinerEvaluation(1, <<PullRequest(1, <<"a", "/", "a">>, 0, 0)>>, None),
      MinerEvaluation(2, <<PullRequest(1, <<"a", "/", "a">>, 0, 0)>>, Some(0)) }
\* MinerEvaluation.total_prs
total_prs(evaluation) ==
    IF evaluation.stored_total_prs # None THEN evaluation.stored_total_prs[1]
    ELSE Len(evaluation.pull_requests)

\* ------------------------------------------------------------------ storage
EmptyDb ==
    [repositories |-> {}, miners |-> {}, pull_requests |-> {}, issues |-> {},
     file_changes |-> {}, miner_evaluations |-> {}]

RowCount(d) ==
    Cardinality(d.repositories) + Cardinality(d.miners) + Cardinality(d.pull_requests)
    + Cardinality(d.issues) + Cardinality(d.file_changes) + Cardinality(d.miner_evaluations)

\* the rows in the tables that the repository classes `classes` write
OwnRows(d, classes) ==
    (IF "RepositoriesRepository" \in classes THEN Cardinality(d.repositories) ELSE 0)
    + (IF "MinersRepository" \in classes THEN Cardinality(d.miners) ELSE 0)
    + (IF "PullRequestsRepository" \in classes THEN Cardinality(d.pull_requests) ELSE 0)
    + (IF "IssuesRepository" \in classes THEN Cardinality(d.issues) ELSE 0)
    + (IF "FileChangesRepository" \in classes THEN Cardinality(d.file_changes) ELSE 0)
    + (IF "MinerEvaluationsRepository" \in classes
       THEN Cardinality(d.miner_evaluations) ELSE 0)

\* ON CONFLICT targets
RepositoryKey(r) == r.full_name
MinerKey(r) == <<r.uid, r.hotkey, r.github_id>>

\* INSERT INTO repositories ... ON CONFLICT (full_name) DO NOTHING
\* variant: SET_REPOSITORY without its ON CONFLICT clause
InsertRepositoryAlways(table, row) == table \cup {row}

InsertRepository(table, row) ==
    IF \E r \in table : RepositoryKey(r) = RepositoryKey(row) THEN table ELSE table \cup {row}

\* INSERT INTO miners ... ON CONFLICT (uid, hotkey, github_id) DO NOTHING
InsertMiner(table, row) ==
    IF \E r \in table : MinerKey(r) = MinerKey(row) THEN table ELSE table \cup {row}

\* INSERT INTO miners ... ON CONFLICT (uid, hotkey, github_id)
\* DO UPDATE SET updated_at = CURRENT_TIMESTAMP AT TIME ZONE ...
\* variant: UPSERT_MINER with DO NOTHING in place of DO UPDATE
UpsertMinerIgnores(table, row) ==
    IF \E r \in table : MinerKey(r) = MinerKey(row) THEN table ELSE table \cup {row}

UpsertMiner(table, row) ==
    IF \E r \in table : MinerKey(r) = MinerKey(row)
    THEN {IF MinerKey(r) = MinerKey(row) THEN [r EXCEPT !.updated_at = row.updated_at] ELSE r
            : r \in table}
    ELSE table \cup {row}

PullRequestKey(r) == <<r.number, r.repository_full_name>>
IssueKey(r) == <<r.number, r.repository_full_name>>
FileChangeKey(r) == <<r.pr_number, r.repository_full_name, r.filename>>

\* variant: SET_PULL_REQUEST overwriting the row it conflicts with
InsertPullRequestOverwrites(table, row) ==
    {r \in table : PullRequestKey(r) # PullRequestKey(row)} \cup {row}

\* INSERT INTO pull_requests ... ON CONFLICT (number, repository_full_name) DO NOTHING
InsertPullRequest(table, row) ==
    IF \E r \in table : PullRequestKey(r) = PullRequestKey(row) THEN table
    ELSE table \cup {row}

\* INSERT INTO issues ... ON CONFLICT (number, repository_full_name) DO NOTHING
InsertIssue(table, row) ==
    IF \E r \in table : IssueKey(r) = IssueKey(row) THEN table ELSE table \cup {row}

\* the id storage assigns to a new row
NextId(table) == IF table = {} THEN 1 ELSE 1 + Max({r.id : r \in table})

\* variant: the file_changes INSERT without its ON CONFLICT clause
InsertFileChangeAlways(table, row) == table \cup {[row EXCEPT !.id = NextId(table)]}

\* INSERT INTO file_changes ... ON CONFLICT (pr_number, repository_full_name,
\* filename) DO NOTHING
InsertFileChange(table, row) ==
    IF \E r \in table : FileChangeKey(r) = FileChangeKey(row) THEN table
    ELSE table \cup {[row EXCEPT !.id = NextId(table)]}

\* INSERT INTO miner_evaluations ...: no conflict target
InsertMinerEvaluation(table, row) == table \cup {[row EXCEPT !.id = NextId(table)]}

RECURSIVE InsertPullRequests(_, _)
InsertPullRequests(table, rows) ==
    IF rows = <<>> THEN table
    ELSE InsertPullRequests(InsertPullRequest(table, Head(rows)), Tail(rows))

RECURSIVE InsertIssues(_, _)
InsertIssues(table, rows) ==
    IF rows = <<>> THEN table ELSE InsertIssues(InsertIssue(table, Head(rows)), Tail(rows))

RECURSIVE InsertFileChanges(_, _)
InsertFileChanges(table, rows) ==
    IF rows = <<>> THEN table
    ELSE InsertFileChanges(InsertFileChange(table, Head(rows)), Tail(rows))

\* A statement's VALUES list applied row by row.
RECURSIVE InsertRepositories(_, _)
InsertRepositories(table, rows) ==
    IF rows = <<>> THEN table
    ELSE InsertRepositories(InsertRepository(table, Head(rows)), Tail(rows))

RECURSIVE UpsertMiners(_, _)
UpsertMiners(table, rows) ==
    IF rows = <<>> THEN table ELSE UpsertMiners(UpsertMiner(table, Head(rows)), Tail(rows))

\* ON CONFLICT DO UPDATE refuses a statement that names one key twice.
TwiceInStatement(rows) ==
    \E i, j \in DOMAIN rows : i # j /\ MinerKey(rows[i]) = MinerKey(rows[j])

\* CURRENT_TIMESTAMP never runs behind a timestamp already stored.
Clock(d) ==
    {t \in 0..MaxClock : \A r \in d.miners : r.updated_at <= t}

\* ------------------------------------------------------- connection faults
\* The call of the connection handle that raises during one operation;
\* "unusable": the connection is closed or lost and every call raises.
Faults == {"none", "cursor", "execute", "commit", "close", "unusable"}
\* A read makes no call after a cursor() that raises, and never commits.
ReadFaults == Faults \ {"commit", "unusable"}

\* execute_values sends one statement per page of page_size rows.
Pages(n) == (n + PageSize - 1) \div PageSize

\* --------------------------------------------------------- BaseRepository
\* The unit of work every write shares:
\*     try:
\*         with self.get_cursor() as cursor:
\*             <n cursor.execute calls>; self.db.commit(); return <ok>
\*     except Exception: self.db.rollback(); return <failed>
\* `after` is storage once the n statements are committed; failAt is the
\* statement that raises (0: none); in a failed transaction the first does.
\* The unit ends "ok", "failed", or "raised" when the handler's own rollback
\* raises and the exception leaves the method.
UnitOfWork(d, t, after, n, failAt, f) ==
    LET stop == IF t = "failed" THEN 1 ELSE failAt
    IN
    IF f = "unusable"
    THEN \* cursor() raises, and so does the rollback of the handler
         [db |-> d, txn |-> t, end |-> "raised", calls |-> <<"cursor", "rollback">>]
    ELSE IF f = "cursor"
    THEN [db |-> d, txn |-> "idle", end |-> "failed", calls |-> <<"cursor", "rollback">>]
    ELSE IF stop > 0
    THEN \* statement `stop` raises; the cursor is closed, the unit rolled back
         [db |-> d, txn |-> "idle", end |-> "failed",
          calls |-> <<"cursor">> \o Rep("execute", stop) \o <<"close", "rollback">>]
    ELSE IF f = "commit"
    THEN [db |-> d, txn |-> "idle", end |-> "failed",
          calls |-> <<"cursor">> \o Rep("execute", n) \o <<"commit", "close", "rollback">>]
    ELSE IF f = "close"
    THEN \* commit succeeded; close() raises inside `finally`, the handler
         \* rolls back nothing and reports failure
         [db |-> after, txn |-> "idle", end |-> "failed",
          calls |-> <<"cursor">> \o Rep("execute", n) \o <<"commit", "close", "rollback">>]
    ELSE [db |-> after, txn |-> "idle", end |-> "ok",
          calls |-> <<"cursor">> \o Rep("execute", n) \o <<"commit", "close">>]

\* What a method hands back: a value, or an exception that leaves it.
Returned(d, t, v, calls) == [db |-> d, txn |-> t, out |-> "returned", ret |-> v, calls |-> calls]
Raised(d, t, calls) == [db |-> d, txn |-> t, out |-> "raised", ret |-> None, calls |-> calls]

\* execute_command(query, params) -> bool
execute_command(d, t, after, f) ==
    LET u == UnitOfWork(d, t, after, 1, IF f = "execute" THEN 1 ELSE 0, f)
    IN  IF u.end = "raised" THEN Raised(u.db, u.txn, u.calls)
        ELSE Returned(u.db, u.txn, u.end = "ok", u.calls)

\* set_entity(query, params) -> bool
set_entity(d, t, after, f) == execute_command(d, t, after, f)

\* A bulk method after its values are built: execute_values, commit,
\* return len(values); rollback and 0 on any exception.
\* variant: a bulk store answering with the number of rows it added
bulk_store_counts_added(d, t, after, count, refused, f) ==
    LET u == UnitOfWork(d, t, after, Pages(count),
                        IF refused \/ f = "execute" THEN 1 ELSE 0, f)
    IN  IF u.end = "raised" THEN Raised(u.db, u.txn, u.calls)
        ELSE Returned(u.db, u.txn,
                      IF u.end = "ok" THEN RowCount(after) - RowCount(d) ELSE 0, u.calls)

bulk_store(d, t, after, count, refused, f) ==
    LET u == UnitOfWork(d, t, after, Pages(count),
                        IF refused \/ f = "execute" THEN 1 ELSE 0, f)
    IN  IF u.end = "raised" THEN Raised(u.db, u.txn, u.calls)
        ELSE Returned(u.db, u.txn, IF u.end = "ok" THEN count ELSE 0, u.calls)

\* execute_query / execute_single_query: `rows` is what the cursor fetches.
\* No commit and no rollback: a successful SELECT leaves the transaction it
\* opened, a failed one leaves it failed.
\* variant: a cursor closed only when the statement went through
execute_query_leaks_cursor(d, t, rows, fetch, f) ==
    IF f \in {"cursor", "unusable"} THEN Raised(d, t, <<"cursor">>)
    ELSE IF f = "execute" \/ t = "failed"
    THEN Raised(d, "failed", <<"cursor", "execute">>)
    ELSE IF f = "close" THEN Raised(d, "open", <<"cursor", "execute", fetch, "close">>)
    ELSE Returned(d, "open", rows, <<"cursor", "execute", fetch, "close">>)

execute_query(d, t, rows, fetch, f) ==
    IF f \in {"cursor", "unusable"} THEN Raised(d, t, <<"cursor">>)
    ELSE IF f = "execute" \/ t = "failed"
    THEN Raised(d, "failed", <<"cursor", "execute", "close">>)
    ELSE IF f = "close" THEN Raised(d, "open", <<"cursor", "execute", fetch, "close">>)
    ELSE Returned(d, "open", rows, <<"cursor", "execute", fetch, "close">>)

\* query_single: `row` is fetchone()'s answer (None when nothing matches);
\* `mapped` is mapper(row).
\* variant: query_single treating a missing row as an error
query_single_requires_row(d, t, row, mapped, f) ==
    IF row = None /\ f = "none" /\ t # "failed"
    THEN Raised(d, "open", <<"cursor", "execute", "fetchone", "close">>)
    ELSE LET r == execute_query(d, t, row, "fetchone", f)
         IN  IF r.out = "raised" THEN r
             ELSE [r EXCEPT !.ret = IF row # None THEN Some(mapped) ELSE None]

query_single(d, t, row, mapped, f) ==
    LET r == execute_query(d, t, row, "fetchone", f)
    IN  IF r.out = "raised" THEN r
        ELSE [r EXCEPT !.ret = IF row # None THEN Some(mapped) ELSE None]

\* query_multiple: `mapped` is [mapper(result) for result in results].
query_multiple(d, t, mapped, f) == execute_query(d, t, mapped, "fetchall", f)

\* ------------------------------------------------------------ the caller
Quiet ==
    [op |-> "none", arg |-> None, fault |-> "none", before |-> EmptyDb, txn |-> "idle",
     out |-> "none", ret |-> None, calls |-> <<>>]

\* One call of a repository method: the state it leaves and what it hands
\* back; `before` and `txn` keep storage and the transaction as the call
\* found them.
Call(class, op, arg, f, r) ==
    /\ lastOp.op = "none"
    /\ class \in built
    /\ OwnRows(r.db, built) <= MaxRows
    /\ db' = r.db
    /\ txn' = r.txn
    /\ lastOp' = [op |-> op, arg |-> arg, fault |-> f, before |-> db, txn |-> txn,
                  out |-> r.out, ret |-> r.ret, calls |-> r.calls]
    /\ UNCHANGED <<built, schema, migrator, shared>>

\* The caller takes the result; its next call starts from there.
Return ==
    /\ lastOp.op # "none"
    /\ lastOp' = Quiet
    /\ UNCHANGED <<db, txn, built, schema, migrator, shared>>

\* fetchone(): any of the matching rows, None when there is none
FetchOne(hit) == IF hit = {} THEN {None} ELSE {Some(r) : r \in hit}

\* -------------------------------------------------------- MinersRepository
map_to_miner(row) == [uid |-> row.uid, hotkey |-> row.hotkey, github_id |-> row.github_id]

\* the row a miners INSERT adds at time `now`
MinerRow(miner, now) ==
    [uid |-> miner.uid, hotkey |-> miner.hotkey, github_id |-> miner.github_id,
     created_at |-> now, updated_at |-> now]

Uids == {1, 2}
Hotkeys == {"h1", "h2"}
GithubIds == {"g1"}

get_miner(d, t, row, f) ==
    query_single(d, t, row, IF row = None THEN None ELSE map_to_miner(row[1]), f)

GetMiner ==
    \E uid \in Uids, hotkey \in Hotkeys, github_id \in GithubIds, f \in ReadFaults :
        \E row \in FetchOne({r \in db.miners :
                    r.uid = uid /\ r.hotkey = hotkey /\ r.github_id = github_id}) :
            Call("MinersRepository", "get_miner", <<uid, hotkey, github_id>>, f,
                 get_miner(db, txn, row, f))

GetMinerByUid ==
    \E uid \in Uids, f \in ReadFaults :
        \E row \in FetchOne({r \in db.miners : r.uid = uid}) :
            Call("MinersRepository", "get_miner_by_uid", uid, f, get_miner(db, txn, row, f))

GetMinerByHotkey ==
    \E hotkey \in Hotkeys, f \in ReadFaults :
        \E row \in FetchOne({r \in db.miners : r.hotkey = hotkey}) :
            Call("MinersRepository", "get_miner_by_hotkey", hotkey, f,
                 get_miner(db, txn, row, f))

GetMinerByGithubId ==
    \E github_id \in GithubIds, f \in ReadFaults :
        \E row \in FetchOne({r \in db.miners : r.github_id = github_id}) :
            Call("MinersRepository", "get_miner_by_github_id", github_id, f,
                 get_miner(db, txn, row, f))

GetMinerByHotkeyAndGithubId ==
    \E hotkey \in Hotkeys, github_id \in GithubIds, f \in ReadFaults :
        \E row \in FetchOne({r \in db.miners : r.hotkey = hotkey /\ r.github_id = github_id}) :
            Call("MinersRepository", "get_miner_by_hotkey_and_github_id",
                 <<hotkey, github_id>>, f, get_miner(db, txn, row, f))

set_miner(d, t, miner, now, f) ==
    set_entity(d, t, [d EXCEPT !.miners = InsertMiner(@, MinerRow(miner, now))], f)

SetMiner ==
    \E miner \in Miners, f \in Faults, now \in Clock(db) :
        Call("MinersRepository", "set_miner", [miner |-> miner, now |-> now], f,
             set_miner(db, txn, miner, now, f))

upsert_miner(d, t, miner, now, f) ==
    set_entity(d, t, [d EXCEPT !.miners = UpsertMiner(@, MinerRow(miner, now))], f)

UpsertMinerCall ==
    \E miner \in Miners, f \in Faults, now \in Clock(db) :
        Call("MinersRepository", "upsert_miner", [miner |-> miner, now |-> now], f,
             upsert_miner(db, txn, miner, now, f))

\* GET_ALL_MINERS: ORDER BY uid
get_all_miners(d, t, rows, f) ==
    query_multiple(d, t, [i \in DOMAIN rows |-> map_to_miner(rows[i])], f)

GetAllMiners ==
    \E f \in ReadFaults :
        \E rows \in {s \in Perms(db.miners) :
                        \A i, j \in DOMAIN s : i < j => s[i].uid <= s[j].uid} :
            Call("MinersRepository", "get_all_miners", None, f,
                 get_all_miners(db, txn, rows, f))

store_miners_bulk(d, t, miners, now, f) ==
    IF miners = <<>> THEN Returned(d, t, 0, <<>>)
    ELSE LET values == [i \in DOMAIN miners |-> MinerRow(miners[i], now)]
         IN  bulk_store(d, t, [d EXCEPT !.miners = UpsertMiners(@, values)],
                        Len(values), TwiceInStatement(values), f)

StoreMinersBulk ==
    \E miners \in SeqsUpTo(Miners, MaxBulk), f \in Faults, now \in Clock(db) :
        Call("MinersRepository", "store_miners_bulk", [miners |-> miners, now |-> now], f,
             store_miners_bulk(db, txn, miners, now, f))

\* -------------------------------------------------- RepositoriesRepository
\* variant: a mapper handing the columns to the wrong fields
map_to_repository_swapped(row) == [name |-> row.owner, owner |-> row.name]

map_to_repository(row) == [name |-> row.name, owner |-> row.owner]

get_repository(d, t, repository_full_name, row, f) ==
    query_single(d, t, row, IF row = None THEN None ELSE map_to_repository(row[1]), f)

GetRepository ==
    \E name \in RepoNames \cup BulkFullNames, f \in ReadFaults :
        \E row \in FetchOne({r \in db.repositories : r.full_name = name}) :
            Call("RepositoriesRepository", "get_repository", name, f,
                 get_repository(db, txn, name, row, f))

set_repository(d, t, repository, f) ==
    LET params == [full_name |-> full_name(repository), name |-> repository.name,
                   owner |-> repository.owner]
    IN  set_entity(d, t, [d EXCEPT !.repositories = InsertRepository(@, params)], f)

SetRepository ==
    \E repository \in Repositories, f \in Faults :
        Call("RepositoriesRepository", "set_repository", repository, f,
             set_repository(db, txn, repository, f))

\* GET_ALL_REPOSITORIES: ORDER BY full_name
get_all_repositories(d, t, rows, f) ==
    query_multiple(d, t, [i \in DOMAIN rows |-> map_to_repository(rows[i])], f)

GetAllRepositories ==
    \E f \in ReadFaults :
        \E rows \in {s \in Perms(db.repositories) :
                        \A i, j \in DOMAIN s : i < j => TextLeq(s[i].full_name, s[j].full_name)} :
            Call("RepositoriesRepository", "get_all_repositories", None, f,
                 get_all_repositories(db, txn, rows, f))

\* values of store_repositories_bulk: the names that split into two parts
repository_values(names) ==
    {[full_name |-> n, name |-> split(n, "/")[2], owner |-> split(n, "/")[1]]
        : n \in {m \in names : Len(split(m, "/")) = 2}}

store_repositories_bulk(d, t, repository_full_names, values, f) ==
    IF repository_full_names = {} THEN Returned(d, t, 0, <<>>)
    ELSE IF values = <<>> THEN Returned(d, t, 0, <<>>)
    ELSE bulk_store(d, t, [d EXCEPT !.repositories = InsertRepositories(@, values)],
                    Len(values), FALSE, f)

StoreRepositoriesBulk ==
    \E names \in SUBSET BulkFullNames, f \in Faults :
        \* a set is iterated in some order
        \E values \in Perms(repository_values(names)) :
            Call("RepositoriesRepository", "store_repositories_bulk", names, f,
                 store_repositories_bulk(db, txn, names, values, f))

\* -------------------------------------------------- PullRequestsRepository
map_to_pull_request(row) ==
    [number |-> row.number, repository_full_name |-> row.repository_full_name,
     uid |-> row.uid, uid_type |-> row.uid_type,
     hotkey |-> row.hotkey, github_id |-> row.github_id,
     title |-> row.title, merged_at |-> row.merged_at, earned_score |-> row.earned_score,
     file_changes |-> None]

\* variant: a uid bound as the caller handed it over
normalize_uid_never(pr) == pr

\* if isinstance(pr.uid, np.integer): pr.uid = pr.uid.item()
normalize_uid(pr) ==
    IF pr.uid_type = "np.int64" THEN [pr EXCEPT !.uid_type = "int"] ELSE pr

\* the tuple set_pull_request and store_pull_requests_bulk bind
pull_request_params(pr) ==
    LET normal == normalize_uid(pr)
    IN  [number |-> normal.number, repository_full_name |-> normal.repository_full_name,
         uid |-> normal.uid, uid_type |-> normal.uid_type,
         hotkey |-> normal.hotkey, github_id |-> normal.github_id,
         earned_score |-> normal.earned_score, title |-> normal.title,
         merged_at |-> normal.merged_at]

\* variant: repositories joined with LEFT JOIN, every pull request kept
LeftJoinedPullRequests(d) == d.pull_requests

\* FROM pull_requests pr JOIN repositories r ON pr.repository_full_name = r.full_name
JoinedPullRequests(d) ==
    {pr \in d.pull_requests :
        \E r \in d.repositories : r.full_name = pr.repository_full_name}

\* ... LEFT JOIN file_changes fc ON pr.number = fc.pr_number AND
\* pr.repository_full_name = fc.repository_full_name: one row per file
\* change, and one row with NULL fc columns for a pull request that has none
WithFileChanges(d, prs) ==
    UNION { LET fcs == {fc \in d.file_changes :
                           /\ fc.pr_number = pr.number
                           /\ fc.repository_full_name = pr.repository_full_name}
            IN  IF fcs = {}
                THEN {[pr |-> pr, filename |-> None, changes |-> None,
                       file_extension |-> None]}
                ELSE {[pr |-> pr, filename |-> Some(fc.filename),
                       changes |-> Some(fc.changes),
                       file_extension |-> Some(fc.file_extension)] : fc \in fcs}
          : pr \in prs }

\* the FileChange built from one joined row
joined_file_change(row) ==
    [pr_number |-> row.pr.number, repository_full_name |-> row.pr.repository_full_name,
     filename |-> row.filename[1], changes |-> row.changes[1],
     file_extension |-> IF row.file_extension = None
                        THEN Some(calculate_file_extension(row.filename[1]))
                        ELSE row.file_extension,
     id |-> None]

RECURSIVE joined_file_changes(_)
joined_file_changes(rows) ==
    IF rows = <<>> THEN <<>>
    ELSE (IF Truthy(Head(rows).filename) THEN <<joined_file_change(Head(rows))>> ELSE <<>>)
         \o joined_file_changes(Tail(rows))

\* _map_to_pull_request_with_file_changes(rows) -> Optional[PullRequest]
map_to_pull_request_with_file_changes(rows) ==
    IF rows = <<>> THEN None
    ELSE LET first_row == rows[1]
             pull_request == map_to_pull_request(first_row.pr)
         IN  IF Truthy(first_row.filename)
             THEN Some([pull_request EXCEPT !.file_changes = Some(joined_file_changes(rows))])
             ELSE Some(pull_request)

get_pull_request(d, t, row, f) ==
    query_single(d, t, row, IF row = None THEN None ELSE map_to_pull_request(row[1]), f)

GetPullRequest ==
    \E pr_number \in PrNumbers, repository_full_name \in RepoNames, f \in ReadFaults :
        \E row \in FetchOne({r \in JoinedPullRequests(db) :
                    r.number = pr_number /\ r.repository_full_name = repository_full_name}) :
            Call("PullRequestsRepository", "get_pull_request",
                 <<pr_number, repository_full_name>>, f, get_pull_request(db, txn, row, f))

set_pull_request(d, t, pull_request, f) ==
    set_entity(d, t,
               [d EXCEPT !.pull_requests =
                    InsertPullRequest(@, pull_request_params(pull_request))], f)

SetPullRequest ==
    \E pull_request \in PullRequests, f \in Faults :
        Call("PullRequestsRepository", "set_pull_request", pull_request, f,
             set_pull_request(db, txn, pull_request, f))

get_pull_requests(d, t, rows, f) ==
    query_multiple(d, t, [i \in DOMAIN rows |-> map_to_pull_request(rows[i])], f)

\* GET_PULL_REQUESTS_BY_REPOSITORY: ORDER BY pr.merged_at DESC
GetPullRequestsByRepository ==
    \E repository_full_name \in RepoNames, f \in ReadFaults :
        \E rows \in {s \in Perms({r \in JoinedPullRequests(db) :
                                    r.repository_full_name = repository_full_name}) :
                        \A i, j \in DOMAIN s : i < j => s[i].merged_at >= s[j].merged_at} :
            Call("PullRequestsRepository", "get_pull_requests_by_repository",
                 repository_full_name, f, get_pull_requests(db, txn, rows, f))

\* GET_PULL_REQUESTS_BY_MINER: ORDER BY pr.earned_score DESC, pr.merged_at DESC
GetPullRequestsByMiner ==
    \E uid \in Uids, hotkey \in Hotkeys, github_id \in GithubIds, f \in ReadFaults :
        \E rows \in {s \in Perms({r \in JoinedPullRequests(db) :
                            r.uid = uid /\ r.hotkey = hotkey /\ r.github_id = github_id}) :
                        \A i, j \in DOMAIN s : i < j =>
                            \/ s[i].earned_score > s[j].earned_score
                            \/ /\ s[i].earned_score = s[j].earned_score
                               /\ s[i].merged_at >= s[j].merged_at} :
            Call("PullRequestsRepository", "get_pull_requests_by_miner",
                 <<uid, hotkey, github_id>>, f, get_pull_requests(db, txn, rows, f))

get_pull_request_with_file_changes(d, t, results, f) ==
    LET r == execute_query(d, t, results, "fetchall", f)
    IN  IF r.out = "raised" THEN r
        ELSE [r EXCEPT !.ret = map_to_pull_request_with_file_changes(results)]

GetPullRequestWithFileChanges ==
    \E pr_number \in PrNumbers, repository_full_name \in RepoNames, f \in ReadFaults :
        \E results \in Perms(WithFileChanges(db, {r \in JoinedPullRequests(db) :
                    r.number = pr_number /\ r.repository_full_name = repository_full_name})) :
            Call("PullRequestsRepository", "get_pull_request_with_file_changes",
                 <<pr_number, repository_full_name>>, f,
                 get_pull_request_with_file_changes(db, txn, results, f))

\* pr_groups: the keys result['number'] in the order first seen
RECURSIVE first_seen(_, _)
first_seen(results, seen) ==
    IF results = <<>> THEN <<>>
    ELSE IF Head(results).pr.number \in seen THEN first_seen(Tail(results), seen)
    ELSE <<Head(results).pr.number>>
         \o first_seen(Tail(results), seen \cup {Head(results).pr.number})

pr_group(results, pr_key) == SelectSeq(results, LAMBDA r : r.pr.number = pr_key)

get_pull_requests_by_repository_with_file_changes(d, t, results, f) ==
    LET r == execute_query(d, t, results, "fetchall", f)
        keys == first_seen(results, {})
    IN  IF r.out = "raised" THEN r
        ELSE [r EXCEPT !.ret =
                [i \in DOMAIN keys |->
                    map_to_pull_request_with_file_changes(pr_group(results, keys[i]))[1]]]

\* ... WHERE pr.repository_full_name = %s ORDER BY pr.merged_at DESC
GetPullRequestsByRepositoryWithFileChanges ==
    \E repository_full_name \in RepoNames, f \in ReadFaults :
        \E results \in {s \in Perms(WithFileChanges(db, {r \in JoinedPullRequests(db) :
                                    r.repository_full_name = repository_full_name})) :
                        \A i, j \in DOMAIN s : i < j => s[i].pr.merged_at >= s[j].pr.merged_at} :
            Call("PullRequestsRepository",
                 "get_pull_requests_by_repository_with_file_changes",
                 repository_full_name, f,
                 get_pull_requests_by_repository_with_file_changes(db, txn, results, f))

store_pull_requests_bulk(d, t, pull_requests, f) ==
    IF pull_requests = <<>> THEN Returned(d, t, 0, <<>>)
    ELSE LET values == [i \in DOMAIN pull_requests |-> pull_request_params(pull_requests[i])]
         IN  bulk_store(d, t, [d EXCEPT !.pull_requests = InsertPullRequests(@, values)],
                        Len(values), FALSE, f)

StorePullRequestsBulk ==
    \E pull_requests \in SeqsUpTo(PullRequests, MaxBulk), f \in Faults :
        Call("PullRequestsRepository", "store_pull_requests_bulk", pull_requests, f,
             store_pull_requests_bulk(db, txn, pull_requests, f))

\* --------------------------------------------------- FileChangesRepository
map_to_file_change(row) ==
    [pr_number |-> row.pr_number, repository_full_name |-> row.repository_full_name,
     filename |-> row.filename, changes |-> row.changes,
     file_extension |-> Some(row.file_extension), id |-> Some(row.id)]

\* file_change.file_extension or file_change._calculate_file_extension()
persisted_extension(file_change) ==
    IF Truthy(file_change.file_extension) THEN file_change.file_extension[1]
    ELSE calculate_file_extension(file_change.filename)

file_change_params(pr_number, repository_full_name, file_change) ==
    [pr_number |-> pr_number, repository_full_name |-> repository_full_name,
     filename |-> file_change.filename, changes |-> file_change.changes,
     file_extension |-> persisted_extension(file_change), id |-> 0]

FileChangeIds == 1..MaxRows
\* the (pr_number, repository_full_name) arguments of the setters: the pull
\* request the file changes were built for, and another one
FileChangeTargets == { <<1, <<"a", "/", "a">>>>, <<2, <<"a", "/", "a">>>> }

get_file_change(d, t, row, f) ==
    query_single(d, t, row, IF row = None THEN None ELSE map_to_file_change(row[1]), f)

GetFileChange ==
    \E file_change_id \in FileChangeIds, f \in ReadFaults :
        \E row \in FetchOne({r \in db.file_changes : r.id = file_change_id}) :
            Call("FileChangesRepository", "get_file_change", file_change_id, f,
                 get_file_change(db, txn, row, f))

get_file_changes_by_pr(d, t, rows, f) ==
    query_multiple(d, t, [i \in DOMAIN rows |-> map_to_file_change(rows[i])], f)

\* GET_FILE_CHANGES_BY_PR: ORDER BY filename
GetFileChangesByPr ==
    \E pr_number \in PrNumbers, repository_full_name \in RepoNames, f \in ReadFaults :
        \E rows \in {s \in Perms({r \in db.file_changes :
                                    /\ r.pr_number = pr_number
                                    /\ r.repository_full_name = repository_full_name}) :
                        \A i, j \in DOMAIN s : i < j => TextLeq(s[i].filename, s[j].filename)} :
            Call("FileChangesRepository", "get_file_changes_by_pr",
                 <<pr_number, repository_full_name>>, f,
                 get_file_changes_by_pr(db, txn, rows, f))

\* failAt: the statement of the loop that raises, 0 when none does
\* variant: a setter committing after every element
set_file_changes_for_pr_commits_each(d, t, pr_number, repository_full_name, file_changes, failAt, f) ==
    IF file_changes = <<>> THEN Returned(d, t, TRUE, <<>>)
    ELSE LET params == [i \in DOMAIN file_changes |->
                          file_change_params(pr_number, repository_full_name, file_changes[i])]
             u == UnitOfWork(d, t, [d EXCEPT !.file_changes = InsertFileChanges(@, params)],
                             Len(params), failAt, f)
             kept == IF failAt > 1 /\ t # "failed"
                     THEN [d EXCEPT !.file_changes =
                              InsertFileChanges(@, SubSeq(params, 1, failAt - 1))]
                     ELSE u.db
         IN  IF u.end = "raised" THEN Raised(u.db, u.txn, u.calls)
             ELSE Returned(kept, u.txn, u.end = "ok", u.calls)

set_file_changes_for_pr(d, t, pr_number, repository_full_name, file_changes, failAt, f) ==
    IF file_changes = <<>> THEN Returned(d, t, TRUE, <<>>)
    ELSE LET params == [i \in DOMAIN file_changes |->
                          file_change_params(pr_number, repository_full_name, file_changes[i])]
             u == UnitOfWork(d, t, [d EXCEPT !.file_changes = InsertFileChanges(@, params)],
                             Len(params), failAt, f)
         IN  IF u.end = "raised" THEN Raised(u.db, u.txn, u.calls)
             ELSE Returned(u.db, u.txn, u.end = "ok", u.calls)

SetFileChangesForPr ==
    \E target \in FileChangeTargets, file_changes \in SeqsUpTo(FileChanges, MaxBulk),
       f \in Faults :
        \E failAt \in IF f = "execute" /\ file_changes # <<>>
                      THEN 1..Len(file_changes) ELSE {0} :
            Call("FileChangesRepository", "set_file_changes_for_pr",
                 [pr_number |-> target[1], repository_full_name |-> target[2],
                  file_changes |-> file_changes], f,
                 set_file_changes_for_pr(db, txn, target[1], target[2],
                                         file_changes, failAt, f))

set_file_change(d, t, pr_number, repository_full_name, file_change, f) ==
    set_file_changes_for_pr(d, t, pr_number, repository_full_name, <<file_change>>,
                            IF f = "execute" THEN 1 ELSE 0, f)

SetFileChange ==
    \E target \in FileChangeTargets, file_change \in FileChanges, f \in Faults :
        Call("FileChangesRepository", "set_file_change",
             [pr_number |-> target[1], repository_full_name |-> target[2],
              file_changes |-> <<file_change>>], f,
             set_file_change(db, txn, target[1], target[2], file_change, f))

store_file_changes_bulk(d, t, file_changes, f) ==
    IF file_changes = <<>> THEN Returned(d, t, 0, <<>>)
    ELSE LET values == [i \in DOMAIN file_changes |->
                          file_change_params(file_changes[i].pr_number,
                                             file_changes[i].repository_full_name,
                                             file_changes[i])]
         IN  bulk_store(d, t, [d EXCEPT !.file_changes = InsertFileChanges(@, values)],
                        Len(values), FALSE, f)

StoreFileChangesBulk ==
    \E file_changes \in SeqsUpTo(FileChanges, MaxBulk), f \in Faults :
        Call("FileChangesRepository", "store_file_changes_bulk", file_changes, f,
             store_file_changes_bulk(db, txn, file_changes, f))

\* -------------------------------------------------------- IssuesRepository
map_to_issue(row) ==
    [number |-> row.number, pr_number |-> row.pr_number,
     repository_full_name |-> row.repository_full_name, title |-> row.title,
     created_at |-> row.created_at, closed_at |-> row.closed_at]

issue_params(issue) ==
    [number |-> issue.number, pr_number |-> issue.pr_number,
     repository_full_name |-> issue.repository_full_name, title |-> issue.title,
     created_at |-> issue.created_at, closed_at |-> issue.closed_at]

IssueNumbers == {1, 2}

get_issue(d, t, row, f) ==
    query_single(d, t, row, IF row = None THEN None ELSE map_to_issue(row[1]), f)

GetIssue ==
    \E number \in IssueNumbers, repository_full_name \in RepoNames, f \in ReadFaults :
        \E row \in FetchOne({r \in db.issues :
                    r.number = number /\ r.repository_full_name = repository_full_name}) :
            Call("IssuesRepository", "get_issue", <<number, repository_full_name>>, f,
                 get_issue(db, txn, row, f))

get_issues_by_repository(d, t, rows, f) ==
    query_multiple(d, t, [i \in DOMAIN rows |-> map_to_issue(rows[i])], f)

\* GET_ISSUES_BY_REPOSITORY: ORDER BY created_at DESC
GetIssuesByRepository ==
    \E repository_full_name \in RepoNames, f \in ReadFaults :
        \E rows \in {s \in Perms({r \in db.issues :
                                    r.repository_full_name = repository_full_name}) :
                        \A i, j \in DOMAIN s : i < j => s[i].created_at >= s[j].created_at} :
            Call("IssuesRepository", "get_issues_by_repository", repository_full_name, f,
                 get_issues_by_repository(db, txn, rows, f))

set_issue(d, t, issue, f) ==
    set_entity(d, t, [d EXCEPT !.issues = InsertIssue(@, issue_params(issue))], f)

SetIssue ==
    \E issue \in Issues, f \in Faults :
        Call("IssuesRepository", "set_issue", issue, f, set_issue(db, txn, issue, f))

\* variant: store_issues_bulk without its guard on empty input
store_issues_bulk_unguarded(d, t, issues, f) ==
    LET values == [i \in DOMAIN issues |-> issue_params(issues[i])]
    IN  bulk_store(d, t, [d EXCEPT !.issues = InsertIssues(@, values)],
                   Len(values), FALSE, f)

store_issues_bulk(d, t, issues, f) ==
    IF issues = <<>> THEN Returned(d, t, 0, <<>>)
    ELSE LET values == [i \in DOMAIN issues |-> issue_params(issues[i])]
         IN  bulk_store(d, t, [d EXCEPT !.issues = InsertIssues(@, values)],
                        Len(values), FALSE, f)

StoreIssuesBulk ==
    \E issues \in SeqsUpTo(Issues, MaxBulk), f \in Faults :
        Call("IssuesRepository", "store_issues_bulk", issues, f,
             store_issues_bulk(db, txn, issues, f))

\* ---------------------------------------------- MinerEvaluationsRepository
map_to_miner_evaluation(row) ==
    [uid |-> row.uid, hotkey |-> row.hotkey, id |-> Some(row.id),
     evaluation_timestamp |-> Some(row.evaluation_timestamp),
     pull_requests |-> <<>>, stored_total_prs |-> Some(row.total_prs)]

\* the row SET_MINER_EVALUATION adds at time `now`; the statement binds
\* evaluation.total_prs and leaves id and evaluation_timestamp to storage
miner_evaluation_params(evaluation, now) ==
    [uid |-> evaluation.uid, hotkey |-> evaluation.hotkey,
     total_prs |-> total_prs(evaluation), evaluation_timestamp |-> now, id |-> 0]

EvaluationClock(d) ==
    {t \in 0..MaxClock : \A r \in d.miner_evaluations : r.evaluation_timestamp <= t}

EvaluationIds == 1..MaxRows

get_miner_evaluation(d, t, row, f) ==
    query_single(d, t, row, IF row = None THEN None ELSE map_to_miner_evaluation(row[1]), f)

GetMinerEvaluation ==
    \E evaluation_id \in EvaluationIds, f \in ReadFaults :
        \E row \in FetchOne({r \in db.miner_evaluations : r.id = evaluation_id}) :
            Call("MinerEvaluationsRepository", "get_miner_evaluation", evaluation_id, f,
                 get_miner_evaluation(db, txn, row, f))

\* variant: the oldest id first among the rows of one timestamp
LatestOldestId(rows) ==
    {r \in rows : \A o \in rows :
        \/ r.evaluation_timestamp > o.evaluation_timestamp
        \/ r.evaluation_timestamp = o.evaluation_timestamp /\ r.id <= o.id}

\* GET_LATEST_MINER_EVALUATION: ORDER BY evaluation_timestamp DESC NULLS LAST,
\* id DESC LIMIT 1
Latest(rows) ==
    {r \in rows : \A o \in rows :
        \/ r.evaluation_timestamp > o.evaluation_timestamp
        \/ r.evaluation_timestamp = o.evaluation_timestamp /\ r.id >= o.id}

GetLatestMinerEvaluation ==
    \E uid \in Uids, hotkey \in Hotkeys, f \in ReadFaults :
        \E row \in FetchOne(Latest({r \in db.miner_evaluations :
                                        r.uid = uid /\ r.hotkey = hotkey})) :
            Call("MinerEvaluationsRepository", "get_latest_miner_evaluation",
                 <<uid, hotkey>>, f, get_miner_evaluation(db, txn, row, f))

set_miner_evaluation(d, t, evaluation, now, f) ==
    set_entity(d, t,
               [d EXCEPT !.miner_evaluations =
                    InsertMinerEvaluation(@, miner_evaluation_params(evaluation, now))], f)

SetMinerEvaluation ==
    \E evaluation \in MinerEvaluations, now \in EvaluationClock(db), f \in Faults :
        Call("MinerEvaluationsRepository", "set_miner_evaluation", evaluation, f,
             set_miner_evaluation(db, txn, evaluation, now, f))

get_evaluations_by_timeframe(d, t, rows, f) ==
    query_multiple(d, t, [i \in DOMAIN rows |-> map_to_miner_evaluation(rows[i])], f)

\* GET_EVALUATIONS_BY_TIMEFRAME: WHERE evaluation_timestamp BETWEEN %s AND %s
\* ORDER BY evaluation_timestamp DESC, total_score DESC
GetEvaluationsByTimeframe ==
    \E start_time \in 0..MaxClock, end_time \in 0..MaxClock, f \in ReadFaults :
        \E rows \in {s \in Perms({r \in db.miner_evaluations :
                                    /\ start_time <= r.evaluation_timestamp
                                    /\ r.evaluation_timestamp <= end_time}) :
                        \A i, j \in DOMAIN s : i < j =>
                            s[i].evaluation_timestamp >= s[j].evaluation_timestamp} :
            Call("MinerEvaluationsRepository", "get_evaluations_by_timeframe",
                 <<start_time, end_time>>, f,
                 get_evaluations_by_timeframe(db, txn, rows, f))

\* ----------------------------------------------------------- specification
\* --------------------------------------- callers sharing the connection
\* Two callers run set_file_changes_for_pr at the same time on the one
\* connection handle, caller c for pull request c.  The connection has one
\* transaction: `pending` holds the rows executed in it and not committed,
\* whoever executed them.
Callers == {1, 2}
\* the list each call is handed: two file changes of different filenames
SharedLists == { <<FileChange(<<"a", ".", "P">>, 1, None), FileChange(<<>>, 1, None)>> }

Idle ==
    [pc |-> "idle", file_changes |-> <<>>, i |-> 0, before |-> {},
     overlapped |-> FALSE, ret |-> FALSE]
NoCallers ==
    [pending |-> <<>>, call |-> [c \in Callers |-> Idle], leaked |-> FALSE, lost |-> FALSE]

Running(call) == call.pc \notin {"idle", "done"}

\* rows of caller c's pull request that were not stored when its call began
Mine(table, c, call) == {r \in table : r.pr_number = c} \ call.before
\* a call that returned False, some of its rows committed
Leaked(table, c, call) ==
    call.pc = "done" /\ call.ret = FALSE /\ Mine(table, c, call) # {}
\* a call that returned True, a row it executed stored by nobody
Lost(table, c, call) ==
    /\ call.pc = "done" /\ call.ret = TRUE
    /\ \E i \in DOMAIN call.file_changes :
         ~\E r \in table : FileChangeKey(r) = FileChangeKey(call.file_changes[i])

\* variant: a rollback that leaves the executed rows in the transaction
rollback_keeps_pending(pending) == pending

\* connection.rollback()
rollback(pending) == <<>>

\* connection.commit(): everything pending is stored; in a failed
\* transaction the server answers COMMIT by rolling back, without an error.
commit(table, pending, t) ==
    IF t = "failed" THEN table ELSE InsertFileChanges(table, pending)

\* The state after caller c's step that ends its call with `ret`.
Ended(c, ret, table, pending) ==
    LET call == [shared.call[c] EXCEPT !.pc = "done", !.ret = ret]
    IN  [shared EXCEPT !.pending = pending, !.call[c] = call,
                       !.leaked = @ \/ Leaked(table, c, call),
                       !.lost = @ \/ Lost(table, c, call)]

SharedStep(c, pc) ==
    /\ "SharedConnection" \in built
    /\ shared.call[c].pc = pc
    /\ UNCHANGED <<built, lastOp, schema, migrator>>

\* set_file_changes_for_pr(c, "a/a", file_changes) is entered with a list
\* that is not empty.
Begin(c) ==
    /\ SharedStep(c, "idle")
    /\ \E file_changes \in SharedLists :
         LET o == CHOOSE other \in Callers : other # c
             meets == Running(shared.call[o])
         IN  shared' = [shared EXCEPT
                 !.call[c] = [pc |-> "execute",
                              file_changes |-> [i \in DOMAIN file_changes |->
                                  file_change_params(c, <<"a", "/", "a">>, file_changes[i])],
                              i |-> 0, before |-> db.file_changes,
                              overlapped |-> meets, ret |-> FALSE],
                 !.call[o].overlapped = @ \/ meets]
    /\ UNCHANGED <<db, txn>>

\* cursor.execute(query, params) for the next element; it raises in a
\* failed transaction, and may raise by itself.
Execute(c) ==
    /\ SharedStep(c, "execute")
    /\ LET call == shared.call[c]
       IN  \E ok \in BOOLEAN :
              IF ok /\ txn # "failed"
              THEN /\ txn' = "open"
                   /\ shared' = [shared EXCEPT
                        !.pending = Append(@, call.file_changes[call.i + 1]),
                        !.call[c].i = @ + 1,
                        !.call[c].pc = IF call.i + 1 = Len(call.file_changes)
                                       THEN "commit" ELSE "execute"]
              ELSE /\ txn' = "failed"
                   /\ shared' = [shared EXCEPT !.call[c].pc = "rollback"]
    /\ UNCHANGED db

\* self.db.commit(); return True
CommitShared(c) ==
    /\ SharedStep(c, "commit")
    /\ db' = [db EXCEPT !.file_changes = commit(@, shared.pending, txn)]
    /\ txn' = "idle"
    /\ shared' = Ended(c, TRUE, db'.file_changes, <<>>)

\* except Exception: self.db.rollback(); return False
RollbackShared(c) ==
    /\ SharedStep(c, "rollback")
    /\ txn' = "idle"
    /\ shared' = Ended(c, FALSE, db.file_changes, rollback(shared.pending))
    /\ UNCHANGED db

\* The caller takes the result.
ReturnShared(c) ==
    /\ SharedStep(c, "done")
    /\ shared' = [shared EXCEPT !.call[c] = Idle]
    /\ UNCHANGED <<db, txn>>

\* ------------------------------------------------------- DatabaseMigrator
\* get_migration_files(): the hardcoded order of the schema scripts
migration_order ==
    <<"repositories.sql", "miners.sql", "miner_evaluations.sql",
      "pull_requests.sql", "issues.sql", "file_changes.sql">>

\* The text of script k: statements closed by ';', one of them followed by
\* an empty fragment, blank text after the last.
ScriptText(k) ==
    <<"s", ";", ";">> \o Rep("s", k % MaxStatements) \o Rep(";", k % MaxStatements)
        \o <<" ">>

\* str.strip() of a fragment of " " and other characters
RECURSIVE strip(_)
strip(s) ==
    IF s = <<>> THEN s
    ELSE IF Head(s) = " " THEN strip(Tail(s))
    ELSE IF s[Len(s)] = " " THEN strip(SubSeq(s, 1, Len(s) - 1))
    ELSE s

\* [stmt.strip() for stmt in sql_content.split(';') if stmt.strip()]
RECURSIVE stripped(_)
stripped(fragments) ==
    IF fragments = <<>> THEN <<>>
    ELSE (IF strip(Head(fragments)) # <<>> THEN <<strip(Head(fragments))>> ELSE <<>>)
         \o stripped(Tail(fragments))
statements(sql_content) == stripped(split(sql_content, ";"))

\* Statements of script k once split on ';' and stripped.
Statements(k) == Len(statements(ScriptText(k)))

\* What committing the statements in `pending` leaves of schema `sch`: every
\* statement is an idempotent definition, so one applied twice is there once.
Apply(sch, pending) == sch \cup pending

\* Every statement of script k.
Whole(k) == {<<k, i>> : i \in 1..Statements(k)}

\* A migrator that has not run.
NotStarted ==
    [status |-> "NotStarted", run |-> 0, file |-> 0, pc |-> "idle", stmt |-> 0,
     raising |-> FALSE, raised |-> "none", cursor |-> "none", pending |-> {},
     attempted |-> <<>>,
     committed |-> <<>>,
     executed |-> 0, calls |-> <<>>, start |-> {}, faulted |-> FALSE,
     out |-> "none", ret |-> FALSE]

\* variant: a runner with a ledger, starting at the first script not applied
migrate_begin_with_ledger(m, sch) ==
    LET todo == {k \in DOMAIN migration_order : ~(Whole(k) \subseteq sch)}
        base == [m EXCEPT !.run = m.run + 1, !.stmt = 0, !.raising = FALSE,
                          !.raised = "none", !.cursor = "none",
                          !.pending = {}, !.committed = <<>>, !.executed = 0,
                          !.calls = <<>>, !.start = sch, !.faulted = FALSE,
                          !.out = "none", !.ret = FALSE]
    IN  IF todo = {}
        THEN [base EXCEPT !.status = "Completed", !.file = 0, !.pc = "idle",
                          !.attempted = <<>>, !.out = "returned", !.ret = TRUE]
        ELSE LET k == CHOOSE j \in todo : \A i \in todo : j <= i
             IN  [base EXCEPT !.status = "Running", !.file = k, !.pc = "read",
                              !.attempted = <<k>>]

\* migrate() is entered: the loop takes the first file of the order, whatever
\* the schema holds.
migrate_begin(m, sch) ==
    [m EXCEPT !.status = "Running", !.run = m.run + 1, !.file = 1, !.pc = "read",
              !.stmt = 0, !.raising = FALSE, !.raised = "none", !.cursor = "none",
              !.pending = {},
              !.attempted = <<1>>,
              !.committed = <<>>, !.executed = 0, !.calls = <<>>, !.start = sch,
              !.faulted = FALSE, !.out = "none", !.ret = FALSE]

\* run_migration returned True: the loop takes the next file, or ends and
\* migrate() returns True.
migrate_next(m) ==
    IF m.file = Len(migration_order)
    THEN [m EXCEPT !.status = "Completed", !.file = 0, !.pc = "idle",
                   !.out = "returned", !.ret = TRUE]
    ELSE [m EXCEPT !.file = m.file + 1, !.pc = "read", !.stmt = 0, !.raising = FALSE,
                   !.raised = "none", !.cursor = "none", !.calls = <<>>,
                   !.attempted = Append(m.attempted, m.file + 1)]

\* variant: a loop going on to the next file after a failed one
migrate_abort_skips_file(m) == migrate_next(m)

\* run_migration returned False: `return False`.
migrate_abort(m) ==
    [m EXCEPT !.status = "Failed", !.file = 0, !.pc = "idle",
              !.out = "returned", !.ret = FALSE]

\* An exception left run_migration, and leaves migrate().
migrate_raise(m) ==
    [m EXCEPT !.status = "Raised", !.file = 0, !.pc = "idle", !.out = "raised"]

\* A step of the migrator leaves the repositories' state alone.
MigratorStep(pc) ==
    /\ "DatabaseMigrator" \in built
    /\ lastOp.op = "none"
    /\ migrator.pc = pc
    /\ UNCHANGED <<db, txn, built, lastOp, shared>>

Migrate ==
    /\ MigratorStep("idle")
    /\ migrator.run < MaxRuns
    /\ migrator' = migrate_begin(migrator, schema)
    /\ UNCHANGED schema

\* sql_content = self.read_migration_file(filename)
ReadMigrationFile ==
    /\ MigratorStep("read")
    /\ \E ok \in BOOLEAN :
         migrator' = IF ok THEN [migrator EXCEPT !.pc = "cursor"]
                     ELSE [migrator EXCEPT !.pc = "rollback", !.faulted = TRUE,
                                           !.raised = "read"]
    /\ UNCHANGED schema

\* with self.db.cursor() as cursor:
OpenCursor ==
    /\ MigratorStep("cursor")
    /\ \E ok \in BOOLEAN :
         migrator' = IF ok
                     THEN [migrator EXCEPT !.pc = "execute", !.cursor = "open",
                                           !.calls = Append(@, "cursor")]
                     ELSE [migrator EXCEPT !.pc = "rollback", !.faulted = TRUE,
                                           !.raised = "cursor",
                                           !.calls = Append(@, "cursor")]
    /\ UNCHANGED schema

\* variant: a connection in autocommit, every statement stored as it runs
ExecuteStatementAutocommit ==
    /\ MigratorStep("execute")
    /\ \E ok \in BOOLEAN :
         IF ok
         THEN /\ schema' = Apply(schema, {<<migrator.file, migrator.stmt + 1>>})
              /\ migrator' = [migrator EXCEPT
                    !.stmt = @ + 1, !.executed = @ + 1,
                    !.calls = Append(@, "execute"),
                    !.pc = IF migrator.stmt + 1 = Statements(migrator.file)
                           THEN "commit" ELSE "execute"]
         ELSE /\ schema' = schema
              /\ migrator' = [migrator EXCEPT !.pc = "exit", !.raising = TRUE,
                                              !.faulted = TRUE, !.raised = "execute",
                                              !.calls = Append(@, "execute")]

\* for statement in statements: cursor.execute(statement)
ExecuteStatement ==
    /\ MigratorStep("execute")
    /\ \E ok \in BOOLEAN :
         migrator' =
            IF ok
            THEN [migrator EXCEPT
                    !.stmt = @ + 1, !.executed = @ + 1,
                    !.pending = @ \cup {<<migrator.file, migrator.stmt + 1>>},
                    !.calls = Append(@, "execute"),
                    !.pc = IF migrator.stmt + 1 = Statements(migrator.file)
                           THEN "commit" ELSE "execute"]
            ELSE [migrator EXCEPT !.pc = "exit", !.raising = TRUE, !.faulted = TRUE,
                                  !.raised = "execute",
                                  !.calls = Append(@, "execute")]
    /\ UNCHANGED schema

\* self.db.commit()
Commit ==
    /\ MigratorStep("commit")
    /\ \E ok \in BOOLEAN :
         IF ok
         THEN /\ schema' = Apply(schema, migrator.pending)
              /\ migrator' = [migrator EXCEPT
                                !.pc = "exit", !.pending = {},
                                !.committed = Append(@, migrator.file),
                                !.calls = Append(@, "commit")]
         ELSE /\ schema' = schema
              /\ migrator' = [migrator EXCEPT !.pc = "exit", !.raising = TRUE,
                                              !.faulted = TRUE, !.raised = "commit",
                                              !.calls = Append(@, "commit")]

\* The with block is left, by `return True` or by an exception: the cursor
\* is closed. A close() that raises is caught by the handler like any other.
ExitCursor ==
    /\ MigratorStep("exit")
    /\ \E ok \in BOOLEAN :
         migrator' =
            IF ok /\ ~migrator.raising
            THEN migrate_next([migrator EXCEPT !.cursor = "closed",
                                               !.calls = Append(@, "close")])
            ELSE [migrator EXCEPT !.pc = "rollback", !.cursor = "closed",
                                  !.calls = Append(@, "close"), !.faulted = @ \/ ~ok,
                                  !.raised = IF @ = "none" THEN "close" ELSE @]
    /\ UNCHANGED schema

\* except Exception: self.db.rollback(); return False. A rollback that
\* raises leaves run_migration and migrate(); the connection it leaves has
\* no transaction.
Rollback ==
    /\ MigratorStep("rollback")
    /\ \E ok \in BOOLEAN :
         migrator' =
            LET m == [migrator EXCEPT !.pending = {}, !.calls = Append(@, "rollback")]
            IN  IF ok THEN migrate_abort(m)
                ELSE migrate_raise([m EXCEPT !.faulted = TRUE])
    /\ UNCHANGED schema

Deployments ==
    { {"RepositoriesRepository", "PullRequestsRepository"}, {"FileChangesRepository"},
      {"MinersRepository"}, {"IssuesRepository"}, {"MinerEvaluationsRepository"},
      {"DatabaseMigrator"} }

Init ==
    /\ db = EmptyDb
    /\ txn = "idle"
    /\ built \in Deployments
    /\ lastOp = Quiet
    /\ schema = {}
    /\ migrator = NotStarted
    /\ shared = NoCallers

Next ==
    \/ GetRepository
    \/ SetRepository
    \/ GetAllRepositories
    \/ StoreRepositoriesBulk
    \/ GetMiner
    \/ GetMinerByUid
    \/ GetMinerByHotkey
    \/ GetMinerByGithubId
    \/ GetMinerByHotkeyAndGithubId
    \/ SetMiner
    \/ UpsertMinerCall
    \/ GetAllMiners
    \/ StoreMinersBulk
    \/ GetPullRequest
    \/ SetPullRequest
    \/ GetPullRequestsByRepository
    \/ GetPullRequestsByMiner
    \/ GetPullRequestWithFileChanges
    \/ GetPullRequestsByRepositoryWithFileChanges
    \/ StorePullRequestsBulk
    \/ GetFileChange
    \/ GetFileChangesByPr
    \/ SetFileChangesForPr
    \/ SetFileChange
    \/ StoreFileChangesBulk
    \/ GetIssue
    \/ GetIssuesByRepository
    \/ SetIssue
    \/ StoreIssuesBulk
    \/ GetMinerEvaluation
    \/ GetLatestMinerEvaluation
    \/ SetMinerEvaluation
    \/ GetEvaluationsByTimeframe
    \/ Migrate
    \/ ReadMigrationFile
    \/ OpenCursor
    \/ ExecuteStatement
    \/ Commit
    \/ ExitCursor
    \/ Rollback
    \/ Return

Spec == Init /\ [][Next]_vars

\* The entities alone: FileChange instances constructed from any filename,
\* without an extension or with an explicit one.
ConstructedNames == SeqsUpTo({"a", "P", "."}, MaxName)
ConstructedExtensions == {None, Some(<<>>), Some(<<"P">>)}

ConstructFileChange ==
    \E filename \in ConstructedNames, file_extension \in ConstructedExtensions :
        /\ lastOp.op = "none"
        /\ lastOp' = [Quiet EXCEPT !.op = "FileChange",
                                   !.arg = [filename |-> filename,
                                            file_extension |-> file_extension],
                                   !.out = "returned",
                                   !.ret = FileChange(filename, 1, file_extension)]
        /\ UNCHANGED <<db, txn, built, schema, migrator, shared>>

InitModels ==
    /\ db = EmptyDb
    /\ txn = "idle"
    /\ built = {}
    /\ lastOp = Quiet
    /\ schema = {}
    /\ migrator = NotStarted
    /\ shared = NoCallers

NextModels == ConstructFileChange \/ Return

SpecModels == InitModels /\ [][NextModels]_vars

\* The migrator alone, on a fresh database.
InitMigrate ==
    /\ db = EmptyDb
    /\ txn = "idle"
    /\ built = {"DatabaseMigrator"}
    /\ lastOp = Quiet
    /\ schema = {}
    /\ migrator = NotStarted
    /\ shared = NoCallers

NextMigrate ==
    \/ Migrate
    \/ ReadMigrationFile
    \/ OpenCursor
    \/ ExecuteStatement
    \/ Commit
    \/ ExitCursor
    \/ Rollback

SpecMigrate == InitMigrate /\ [][NextMigrate]_vars

\* Two callers on one connection handle.
InitShared ==
    /\ db = EmptyDb
    /\ txn = "idle"
    /\ built = {"SharedConnection"}
    /\ lastOp = Quiet
    /\ schema = {}
    /\ migrator = NotStarted
    /\ shared = NoCallers

NextShared ==
    \E c \in Callers :
        \/ Begin(c)
        \/ Execute(c)
        \/ CommitShared(c)
        \/ RollbackShared(c)
        \/ ReturnShared(c)

SpecShared == InitShared /\ [][NextShared]_vars
\* ------------------------------------------------- joins over stored rows
\* A PullRequestsRepository built on a database that earlier runs filled:
\* repository a/a and file-change rows of its pull requests 1 and 2.
StoredFileChange(pr_number, filename, id) ==
    [pr_number |-> pr_number, repository_full_name |-> <<"a", "/", "a">>,
     filename |-> filename, changes |-> 1,
     file_extension |-> calculate_file_extension(filename), id |-> id]

JoinSeeds ==
    LET repos == {[full_name |-> <<"a", "/", "a">>, name |-> <<"a">>, owner |-> <<"a">>]}
        seed(prs, fcs) ==
            [EmptyDb EXCEPT !.repositories = repos, !.pull_requests = prs,
                            !.file_changes = fcs]
    IN  { seed({}, {StoredFileChange(1, <<"a", ".", "P">>, 1), StoredFileChange(1, <<>>, 2)}),
          seed({}, {StoredFileChange(1, <<"a", ".", "P">>, 1),
                    StoredFileChange(1, <<"P", ".", "a">>, 2)}),
          seed({pull_request_params(PullRequest(2, <<"a", "/", "a">>, 0, 0))},
               {StoredFileChange(1, <<"a", ".", "P">>, 1),
                StoredFileChange(2, <<"a", ".", "P">>, 2),
                StoredFileChange(1, <<"P", ".", "a">>, 3)}) }

InitJoin ==
    /\ db \in JoinSeeds
    /\ txn = "idle"
    /\ built = {"PullRequestsRepository"}
    /\ lastOp = Quiet
    /\ schema = {}
    /\ migrator = NotStarted
    /\ shared = NoCallers

NextJoin ==
    \/ GetPullRequest
    \/ SetPullRequest
    \/ GetPullRequestsByRepository
    \/ GetPullRequestsByMiner
    \/ GetPullRequestWithFileChanges
    \/ GetPullRequestsByRepositoryWithFileChanges
    \/ StorePullRequestsBulk
    \/ Return

SpecJoin == InitJoin /\ [][NextJoin]_vars

\* --------------------------------------------------------------- properties
\* the operations that go through set_entity / execute_command
SetEntityOps ==
    {"set_repository", "set_miner", "upsert_miner", "set_pull_request", "set_issue",
     "set_miner_evaluation"}
\* the writes that answer with a boolean, and those that answer with a count
SetOps == SetEntityOps \cup {"set_file_changes_for_pr", "set_file_change"}
BulkOps ==
    {"store_repositories_bulk", "store_miners_bulk", "store_pull_requests_bulk",
     "store_issues_bulk", "store_file_changes_bulk"}
SingleReads ==
    {"get_repository", "get_miner", "get_miner_by_uid", "get_miner_by_hotkey",
     "get_miner_by_github_id", "get_miner_by_hotkey_and_github_id", "get_pull_request",
     "get_pull_request_with_file_changes", "get_issue", "get_file_change",
     "get_miner_evaluation", "get_latest_miner_evaluation"}
ListReads ==
    {"get_all_repositories", "get_all_miners", "get_pull_requests_by_repository",
     "get_pull_requests_by_miner", "get_pull_requests_by_repository_with_file_changes",
     "get_issues_by_repository", "get_file_changes_by_pr", "get_evaluations_by_timeframe"}

\* the connection works during the call and was not left in a failed transaction
Healthy == lastOp.fault = "none" /\ lastOp.txn # "failed"

\* a write reported success: True, or a count above 0
Succeeded ==
    /\ lastOp.out = "returned"
    /\ IF lastOp.op \in BulkOps THEN lastOp.ret > 0 ELSE lastOp.ret = TRUE

\* a write reported failure: False, or 0 for a bulk store
ReportedFailure ==
    /\ lastOp.out = "returned"
    /\ IF lastOp.op \in BulkOps THEN lastOp.ret = 0 ELSE lastOp.ret = FALSE

\* the number of elements a write was handed
InputSize ==
    CASE lastOp.op = "store_repositories_bulk" -> Cardinality(lastOp.arg)
      [] lastOp.op = "store_miners_bulk" -> Len(lastOp.arg.miners)
      [] lastOp.op \in {"set_file_changes_for_pr", "set_file_change"} ->
            Len(lastOp.arg.file_changes)
      [] lastOp.op \in BulkOps -> Len(lastOp.arg)
      [] OTHER -> 1

Slashes(text) == Cardinality({i \in DOMAIN text : text[i] = "/"})

\* the natural keys of the rows a write hands to storage
SubmittedKeys ==
    CASE lastOp.op = "set_repository" ->
            {lastOp.arg.owner \o <<"/">> \o lastOp.arg.name}
      [] lastOp.op = "store_repositories_bulk" ->
            {n \in lastOp.arg : Slashes(n) = 1}
      [] lastOp.op \in {"set_pull_request", "set_issue"} ->
            {<<lastOp.arg.number, lastOp.arg.repository_full_name>>}
      [] lastOp.op \in {"store_pull_requests_bulk", "store_issues_bulk"} ->
            {<<lastOp.arg[i].number, lastOp.arg[i].repository_full_name>> :
                i \in DOMAIN lastOp.arg}
      [] lastOp.op \in {"set_file_changes_for_pr", "set_file_change"} ->
            {<<lastOp.arg.pr_number, lastOp.arg.repository_full_name,
               lastOp.arg.file_changes[i].filename>> : i \in DOMAIN lastOp.arg.file_changes}
      [] lastOp.op = "store_file_changes_bulk" ->
            {<<lastOp.arg[i].pr_number, lastOp.arg[i].repository_full_name,
               lastOp.arg[i].filename>> : i \in DOMAIN lastOp.arg}
      [] lastOp.op \in {"set_miner", "upsert_miner"} ->
            {<<lastOp.arg.miner.uid, lastOp.arg.miner.hotkey, lastOp.arg.miner.github_id>>}
      [] lastOp.op = "store_miners_bulk" ->
            {<<lastOp.arg.miners[i].uid, lastOp.arg.miners[i].hotkey,
               lastOp.arg.miners[i].github_id>> : i \in DOMAIN lastOp.arg.miners}
      [] OTHER -> {}

\* the natural keys storage held in the table a write goes to
StoredKeys ==
    CASE lastOp.op \in {"set_repository", "store_repositories_bulk"} ->
            {r.full_name : r \in lastOp.before.repositories}
      [] lastOp.op \in {"set_pull_request", "store_pull_requests_bulk"} ->
            {<<r.number, r.repository_full_name>> : r \in lastOp.before.pull_requests}
      [] lastOp.op \in {"set_issue", "store_issues_bulk"} ->
            {<<r.number, r.repository_full_name>> : r \in lastOp.before.issues}
      [] lastOp.op \in {"set_file_changes_for_pr", "set_file_change",
                        "store_file_changes_bulk"} ->
            {<<r.pr_number, r.repository_full_name, r.filename>> :
                r \in lastOp.before.file_changes}
      [] lastOp.op \in {"set_miner", "upsert_miner", "store_miners_bulk"} ->
            {<<r.uid, r.hotkey, r.github_id>> : r \in lastOp.before.miners}
      [] OTHER -> {}

\* C1: execute_command, and set_entity through it, returns a boolean on every
\* path and never lets an exception out: True only after the statement was
\* executed and committed, False after a rollback for any failure, an unusable
\* connection included.
C1_ExecuteCommandNeverRaises ==
    lastOp.op \in SetEntityOps =>
        /\ lastOp.out = "returned"
        /\ IF lastOp.ret
           THEN /\ "execute" \in Range(lastOp.calls)
                /\ "commit" \in Range(lastOp.calls)
           ELSE "rollback" \in Range(lastOp.calls)

\* C2: a write that reports failure (False, or 0 from a bulk store on
\* non-empty input) leaves storage exactly as it was before the call, on every
\* exit path, a failure while the cursor is released after the commit included.
C2_FailedWriteChangesNothing ==
    (lastOp.op \in SetOps \cup BulkOps /\ InputSize > 0 /\ ReportedFailure)
        => db = lastOp.before

\* C3: set_repository on a full_name that is already stored returns True as
\* the first call did, and every successful set_repository leaves exactly one
\* row for that full_name.
C3_SetRepositoryIdempotent ==
    lastOp.op = "set_repository" =>
        /\ (Healthy /\ SubmittedKeys \subseteq StoredKeys) => Succeeded
        /\ Succeeded =>
            Cardinality({r \in db.repositories : {r.full_name} = SubmittedKeys}) = 1

C3_Witness ==
    /\ lastOp.op = "set_repository"
    /\ SubmittedKeys \subseteq StoredKeys
    /\ Succeeded
    /\ \E r \in db.repositories : r.full_name \in SubmittedKeys /\ r.owner # lastOp.arg.owner

C5_NaturalKeysUnique ==
    /\ \A r, o \in db.miners :
        <<r.uid, r.hotkey, r.github_id>> = <<o.uid, o.hotkey, o.github_id>> => r = o
    /\ \A r, o \in db.repositories : r.full_name = o.full_name => r = o
    /\ \A r, o \in db.pull_requests :
        <<r.number, r.repository_full_name>> = <<o.number, o.repository_full_name>> => r = o
    /\ \A r, o \in db.issues :
        <<r.number, r.repository_full_name>> = <<o.number, o.repository_full_name>> => r = o
    /\ \A r, o \in db.file_changes :
        <<r.pr_number, r.repository_full_name, r.filename>>
            = <<o.pr_number, o.repository_full_name, o.filename>> => r = o

C5_Witness ==
    /\ lastOp.op = "store_file_changes_bulk"
    /\ Succeeded
    /\ InputSize = 2
    /\ Cardinality(SubmittedKeys) = 1
    /\ SubmittedKeys \subseteq StoredKeys
    /\ Cardinality(db.file_changes) = 2

\* what a stored miner row becomes when its last-seen timestamp is set
Seen(r, now) == [r EXCEPT !.updated_at = now]

C7_EmptyBulkNoRoundTrip ==
    (lastOp.op \in BulkOps /\ InputSize = 0)
        => /\ lastOp.out = "returned"
           /\ lastOp.ret = 0
           /\ lastOp.calls = <<>>
           /\ db = lastOp.before
           /\ txn = lastOp.txn

C7_Witness ==
    /\ lastOp.op = "store_issues_bulk"
    /\ InputSize = 0
    /\ lastOp.fault = "unusable"
    /\ lastOp.ret = 0
    /\ lastOp.before # EmptyDb

\* C8 as stated: a successful store_*_bulk on non-empty input returns the
\* number of elements of its input, store_repositories_bulk for any set of
\* full-name strings included.
C8_BulkReturnsInputSize ==
    (lastOp.op \in BulkOps /\ InputSize > 0 /\ Succeeded) => lastOp.ret = InputSize

\* C8: a successful store_*_bulk on non-empty input returns the number of rows
\* it handed to storage, whether or not they conflicted: the number of input
\* elements, except that store_repositories_bulk counts only the names made
\* of two parts around one "/", and returns 0 without a round trip when no
\* name has that form.  Conflicts with stored rows do not make a bulk store
\* of pull requests, issues or file changes fail.
C8_BulkReturnsSubmitted ==
    (lastOp.op \in BulkOps /\ InputSize > 0)
        => /\ Succeeded =>
                lastOp.ret = IF lastOp.op = "store_repositories_bulk"
                             THEN Cardinality(SubmittedKeys) ELSE InputSize
           /\ (lastOp.op = "store_repositories_bulk" /\ SubmittedKeys = {})
                => /\ lastOp.out = "returned"
                   /\ lastOp.ret = 0
                   /\ lastOp.calls = <<>>
           /\ (Healthy /\ lastOp.op \in BulkOps \ {"store_repositories_bulk",
                                                   "store_miners_bulk"})
                => Succeeded

C8_Witness ==
    /\ lastOp.op = "store_repositories_bulk"
    /\ Succeeded
    /\ InputSize = 2
    /\ lastOp.ret = 1
    /\ SubmittedKeys \subseteq StoredKeys

\* the pull requests a read by (number, repository_full_name) finds
StoredPullRequests ==
    {r \in lastOp.before.pull_requests :
        /\ <<r.number, r.repository_full_name>> = lastOp.arg
        /\ \E o \in lastOp.before.repositories : o.full_name = r.repository_full_name}

\* C9: get_pull_request_with_file_changes for a stored pull request with no
\* file-change rows returns the PullRequest with file_changes an empty list.
C9_NoFileChangesIsEmptyList ==
    (/\ lastOp.op = "get_pull_request_with_file_changes"
     /\ lastOp.out = "returned"
     /\ StoredPullRequests # {}
     /\ \A fc \in lastOp.before.file_changes :
            <<fc.pr_number, fc.repository_full_name>> # lastOp.arg)
        => /\ lastOp.ret # None
           /\ lastOp.ret[1].file_changes = Some(<<>>)

\* the rows a read selects, by what its arguments name
Selected ==
    LET b == lastOp.before
        a == lastOp.arg
        joined == {r \in b.pull_requests :
                    \E o \in b.repositories : o.full_name = r.repository_full_name}
    IN  CASE lastOp.op = "get_repository" -> {r \in b.repositories : r.full_name = a}
          [] lastOp.op = "get_all_repositories" -> b.repositories
          [] lastOp.op = "get_miner" ->
                {r \in b.miners : <<r.uid, r.hotkey, r.github_id>> = a}
          [] lastOp.op = "get_miner_by_uid" -> {r \in b.miners : r.uid = a}
          [] lastOp.op = "get_miner_by_hotkey" -> {r \in b.miners : r.hotkey = a}
          [] lastOp.op = "get_miner_by_github_id" -> {r \in b.miners : r.github_id = a}
          [] lastOp.op = "get_miner_by_hotkey_and_github_id" ->
                {r \in b.miners : <<r.hotkey, r.github_id>> = a}
          [] lastOp.op = "get_all_miners" -> b.miners
          [] lastOp.op \in {"get_pull_request", "get_pull_request_with_file_changes"} ->
                {r \in joined : <<r.number, r.repository_full_name>> = a}
          [] lastOp.op \in {"get_pull_requests_by_repository",
                            "get_pull_requests_by_repository_with_file_changes"} ->
                {r \in joined : r.repository_full_name = a}
          [] lastOp.op = "get_pull_requests_by_miner" ->
                {r \in joined : <<r.uid, r.hotkey, r.github_id>> = a}
          [] lastOp.op = "get_issue" ->
                {r \in b.issues : <<r.number, r.repository_full_name>> = a}
          [] lastOp.op = "get_issues_by_repository" ->
                {r \in b.issues : r.repository_full_name = a}
          [] lastOp.op = "get_file_change" -> {r \in b.file_changes : r.id = a}
          [] lastOp.op = "get_file_changes_by_pr" ->
                {r \in b.file_changes : <<r.pr_number, r.repository_full_name>> = a}
          [] lastOp.op = "get_miner_evaluation" -> {r \in b.miner_evaluations : r.id = a}
          [] lastOp.op = "get_latest_miner_evaluation" ->
                {r \in b.miner_evaluations : <<r.uid, r.hotkey>> = a}
          [] lastOp.op = "get_evaluations_by_timeframe" ->
                {r \in b.miner_evaluations :
                    a[1] <= r.evaluation_timestamp /\ r.evaluation_timestamp <= a[2]}
          [] OTHER -> {}

StoredFileChanges ==
    {fc \in lastOp.before.file_changes :
        <<fc.pr_number, fc.repository_full_name>> = lastOp.arg}

\* what identifies a file change, in a stored row and in a returned entity
FileChangeContent(fc) ==
    <<fc.pr_number, fc.repository_full_name, fc.filename, fc.changes>>

\* C11: for a stored pull request with k >= 1 stored file-change rows,
\* get_pull_request_with_file_changes returns one PullRequest whose
\* file_changes list has k entries, equal as a set to the stored rows,
\* whatever order storage returns them in and whatever their filenames.
C11_JoinReturnsEveryFileChange ==
    (/\ lastOp.op = "get_pull_request_with_file_changes"
     /\ Healthy
     /\ StoredPullRequests # {}
     /\ StoredFileChanges # {})
        => /\ lastOp.out = "returned"
           /\ lastOp.ret # None
           /\ lastOp.ret[1].file_changes # None
           /\ Len(lastOp.ret[1].file_changes[1]) = Cardinality(StoredFileChanges)
           /\ {FileChangeContent(lastOp.ret[1].file_changes[1][i]) :
                    i \in DOMAIN lastOp.ret[1].file_changes[1]}
                = {FileChangeContent(fc) : fc \in StoredFileChanges}

\* the file changes a returned PullRequest carries, by content
Carried(pull_request) ==
    IF pull_request.file_changes = None THEN {}
    ELSE {FileChangeContent(pull_request.file_changes[1][i]) :
            i \in DOMAIN pull_request.file_changes[1]}

\* the distinct pull requests of the repository are returned once each, in
\* the order storage first shows them (ORDER BY merged_at DESC)
GroupedOncePerPullRequest ==
    /\ lastOp.out = "returned"
    /\ \A i, j \in DOMAIN lastOp.ret : i # j => lastOp.ret[i].number # lastOp.ret[j].number
    /\ {lastOp.ret[i].number : i \in DOMAIN lastOp.ret} = {r.number : r \in Selected}
    /\ \A i, j \in DOMAIN lastOp.ret : i < j => lastOp.ret[i].merged_at >= lastOp.ret[j].merged_at

\* C12: get_pull_requests_by_repository_with_file_changes returns each
\* distinct pull request of the repository exactly once, in the order its
\* identity is first seen in the storage result, each carrying exactly the
\* file changes of its own rows.
C12_GroupedByPullRequest ==
    (lastOp.op = "get_pull_requests_by_repository_with_file_changes" /\ Healthy)
        => /\ GroupedOncePerPullRequest
           /\ \A i \in DOMAIN lastOp.ret :
                Carried(lastOp.ret[i])
                    = {FileChangeContent(fc) : fc \in
                        {x \in lastOp.before.file_changes :
                            /\ x.pr_number = lastOp.ret[i].number
                            /\ x.repository_full_name = lastOp.arg}}

\* ------------------------------------------------------------ migrations
\* The scripts of s are the first Len(s) of the order, each once.
Prefix(s) == \A i \in DOMAIN s : s[i] = i
Finished == migrator.status \in {"Completed", "Failed", "Raised"}
\* No script is in the schema in part.
WholeScripts == \A k \in DOMAIN migration_order : Whole(k) \subseteq schema \/ Whole(k) \cap schema = {}

\* C13: migrate() takes the scripts in the fixed order; at every moment the
\* scripts the run has committed are a prefix of that order and no script is
\* committed in part; once a script has failed no later script is attempted,
\* nothing is retried, what the failed script executed is not committed, the
\* scripts before it stay committed, and migrate() does not report success.
C13_CommittedIsPrefix ==
    /\ Prefix(migrator.attempted)
    /\ Prefix(migrator.committed)
    /\ Len(migrator.committed) <= Len(migrator.attempted)
    /\ WholeScripts
    /\ \A i \in DOMAIN migrator.committed : Whole(i) \subseteq schema
    /\ migrator.faulted =>
         /\ migrator.pc \in {"exit", "rollback", "idle"}
         /\ migrator.status # "Completed"
         /\ Len(migrator.committed) >= Len(migrator.attempted) - 1
    /\ (Finished /\ migrator.faulted) =>
         /\ migrator.pending = {}
         /\ migrator.out = "raised" \/ (migrator.out = "returned" /\ migrator.ret = FALSE)

\* The third script fails at its second statement after two committed ones.
C13_Witness ==
    /\ migrator.status = "Failed"
    /\ migrator.attempted = <<1, 2, 3>>
    /\ migrator.committed = <<1, 2>>
    /\ migrator.calls = <<"cursor", "execute", "execute", "close", "rollback">>
    /\ schema = Whole(1) \cup Whole(2)

\* C14: a migrate() in which a script failed ends with a signal that is not
\* a boolean: the failure leaves migrate() as an exception, it is not handed
\* back as False.
C14_MigrationFailureIsLoud ==
    (Finished /\ migrator.faulted) => migrator.out = "raised"

\* The schema once every script is applied.
Migrated == UNION {Whole(k) : k \in DOMAIN migration_order}

\* C15: a migrate() entered on the fully migrated schema keeps the schema as
\* it found it at every step, and when no call of it raises it executes
\* every statement of all six scripts again, from the first script, and
\* returns True.
C15_RerunIsSafe ==
    migrator.start = Migrated =>
        /\ schema = Migrated
        /\ (Finished /\ ~migrator.faulted) =>
             /\ migrator.status = "Completed"
             /\ migrator.out = "returned" /\ migrator.ret = TRUE
             /\ migrator.attempted = <<1, 2, 3, 4, 5, 6>>
             /\ migrator.committed = <<1, 2, 3, 4, 5, 6>>
             /\ migrator.executed = Cardinality(Migrated)

\* The second run has completed on the schema the first one left.
C15_Witness ==
    /\ migrator.run = 2
    /\ migrator.start = Migrated
    /\ migrator.status = "Completed"
    /\ migrator.executed = Cardinality(Migrated)
    /\ schema = Migrated

\* C16: a migrate() that has ended is Completed, having returned True with
\* all six scripts committed, or Failed, having returned False; it attempted
\* each script at most once, and an ended run executes nothing more.
C16_EndsCompletedOrFailed ==
    /\ Prefix(migrator.attempted)
    /\ Finished =>
         /\ migrator.pc = "idle"
         /\ \/ /\ migrator.status = "Completed"
               /\ migrator.out = "returned" /\ migrator.ret = TRUE
               /\ migrator.committed = <<1, 2, 3, 4, 5, 6>>
            \/ /\ migrator.status = "Failed"
               /\ migrator.out = "returned" /\ migrator.ret = FALSE

\* ------------------------------------------------------------ cursors
Count(calls, call) == Cardinality({i \in DOMAIN calls : calls[i] = call})
\* close() is called once, after every call made on the cursor.
ClosedOnce(calls) ==
    /\ Count(calls, "close") = 1
    /\ \A i, j \in DOMAIN calls :
         (calls[i] \in {"execute", "fetchone", "fetchall"} /\ calls[j] = "close") => i < j

\* C17: a repository operation, or a migration script, that acquired a
\* cursor has closed it exactly once when it ends, after the statements and
\* fetches made on it, whether it ends by returning or by an exception; one
\* that acquired none closes none.
C17_CursorClosedOnce ==
    /\ lastOp.op # "none" =>
         /\ Count(lastOp.calls, "cursor") <= 1
         /\ IF Count(lastOp.calls, "cursor") = 1 /\ lastOp.fault \notin {"cursor", "unusable"}
            THEN ClosedOnce(lastOp.calls)
            ELSE Count(lastOp.calls, "close") = 0
    /\ Count(migrator.calls, "cursor") <= 1
    /\ migrator.cursor = "open" => migrator.pc \in {"execute", "commit", "exit"}
    /\ migrator.pc \in {"rollback", "idle"} =>
         IF migrator.cursor = "closed" THEN ClosedOnce(migrator.calls)
         ELSE Count(migrator.calls, "close") = 0

\* A read whose statement raised on the cursor it had acquired: the
\* exception leaves the method, the cursor closed behind it.
C17_Witness ==
    /\ lastOp.op \in SingleReads
    /\ lastOp.fault = "execute"
    /\ lastOp.out = "raised"
    /\ lastOp.calls = <<"cursor", "execute", "close">>

\* ------------------------------------------------------------ entities
\* What get_repository(r.full_name) can hand back in this state, r being the
\* repository of the set_repository that has just returned.
ReadBack ==
    LET name == full_name(lastOp.arg)
    IN  {get_repository(db, txn, name, row, "none")
            : row \in FetchOne({r \in db.repositories : r.full_name = name})}
\* rows stored under r's full name before the call
StoredUnderName == {r \in lastOp.before.repositories : r.full_name = full_name(lastOp.arg)}

LastDot(filename) ==
    CHOOSE k \in DOMAIN filename :
        filename[k] = "." /\ \A j \in DOMAIN filename : j > k => filename[j] # "."

\* C19: a FileChange constructed without a file_extension holds the text
\* after the last '.' of its filename, in lowercase, and the empty string
\* when the filename has no '.'; one constructed with a file_extension keeps
\* the value it was given.
C19_ExtensionDerived ==
    lastOp.op = "FileChange" =>
        LET filename == lastOp.arg.filename
            held == lastOp.ret.file_extension
        IN  /\ lastOp.ret.filename = filename
            /\ held # None
            /\ IF lastOp.arg.file_extension # None
               THEN held = lastOp.arg.file_extension
               ELSE IF \E i \in DOMAIN filename : filename[i] = "."
               THEN LET k == LastDot(filename)
                    IN  /\ Len(held[1]) = Len(filename) - k
                        /\ \A i \in DOMAIN held[1] : held[1][i] = Lower(filename[k + i])
               ELSE held[1] = <<>>

\* ".aP" built without an extension holds "ap"; the dot is not the only
\* character and the text after it has an uppercase letter.
C19_Witness ==
    /\ lastOp.op = "FileChange"
    /\ lastOp.arg.file_extension = None
    /\ lastOp.arg.filename = <<".", "a", "P">>
    /\ lastOp.ret.file_extension = Some(<<"a", "p">>)

\* the FileChange entities a persist call was handed
Persisted ==
    IF lastOp.op = "store_file_changes_bulk" THEN lastOp.arg ELSE lastOp.arg.file_changes

\* C20: a persist call (set_file_changes_for_pr, set_file_change,
\* store_file_changes_bulk) does not recompute file_extension: every row it
\* adds to file_changes carries the file_extension held by the entity it was
\* written from.
C20_PersistsHeldExtension ==
    (/\ lastOp.op \in {"set_file_changes_for_pr", "set_file_change", "store_file_changes_bulk"}
     /\ Succeeded)
        => \A row \in db.file_changes \ lastOp.before.file_changes :
             \E i \in DOMAIN Persisted :
                /\ Persisted[i].filename = row.filename
                /\ Persisted[i].changes = row.changes
                /\ Persisted[i].file_extension = Some(row.file_extension)

\* C21: the total_prs of an evaluation handed to set_miner_evaluation is the
\* length of its pull_requests list, and so is the total_prs of the row a
\* successful call adds; the code has no error and no caller's choice under
\* which the two could differ.
C21_TotalPrsAgrees ==
    (lastOp.op = "set_miner_evaluation" /\ Succeeded) =>
        /\ total_prs(lastOp.arg) = Len(lastOp.arg.pull_requests)
        /\ \A row \in db.miner_evaluations \ lastOp.before.miner_evaluations :
             row.total_prs = Len(lastOp.arg.pull_requests)

\* the pull requests a write was handed
SubmittedPullRequests ==
    IF lastOp.op = "set_pull_request" THEN <<lastOp.arg>> ELSE lastOp.arg
\* the bound tuple `b` carries pull request `pr` with a plain integer uid
BoundPlain(pr, b) ==
    /\ b.uid_type = "int"
    /\ b.uid = pr.uid
    /\ b.number = pr.number /\ b.repository_full_name = pr.repository_full_name
    /\ b.hotkey = pr.hotkey /\ b.github_id = pr.github_id
    /\ b.earned_score = pr.earned_score /\ b.title = pr.title
    /\ b.merged_at = pr.merged_at

\* C22: set_pull_request and store_pull_requests_bulk bind, for every pull
\* request handed to them, a plain integer uid of the same value, also when
\* the uid came as an np.int64, with every other bound field as the entity
\* has it; every row such a call adds was bound that way.
C22_UidBoundAsPlainInteger ==
    lastOp.op \in {"set_pull_request", "store_pull_requests_bulk"} =>
        /\ \A i \in DOMAIN SubmittedPullRequests :
             BoundPlain(SubmittedPullRequests[i], pull_request_params(SubmittedPullRequests[i]))
        /\ \A row \in db.pull_requests \ lastOp.before.pull_requests :
             \E i \in DOMAIN SubmittedPullRequests : BoundPlain(SubmittedPullRequests[i], row)

\* A bulk store whose second element has an np.int64 uid added its row.
C22_Witness ==
    /\ lastOp.op = "store_pull_requests_bulk"
    /\ Succeeded
    /\ Len(lastOp.arg) = 2
    /\ lastOp.arg[1].uid_type = "int"
    /\ lastOp.arg[2].uid_type = "np.int64"
    /\ \E row \in db.pull_requests \ lastOp.before.pull_requests :
         row.number = lastOp.arg[2].number /\ row.uid_type = "int"

\* ------------------------------------------------------------ concurrency
\* C23: on a connection shared by two callers a call that ran alone, no
\* other call in progress between its entry and its end, stores all of its
\* rows when it returns True and none when it returns False, and a
\* connection with no call in progress has nothing uncommitted; with two
\* calls at the same time a call that returned False has had rows committed
\* by the other's commit, and a call that returned True has had rows
\* discarded by the other's rollback (the states of C23_Witness).
C23_AloneIsAtomic ==
    /\ \A c \in Callers :
         LET call == shared.call[c]
         IN  (call.pc = "done" /\ ~call.overlapped) =>
                /\ ~Leaked(db.file_changes, c, call)
                /\ ~Lost(db.file_changes, c, call)
    /\ (\A c \in Callers : ~Running(shared.call[c])) =>
         shared.pending = <<>> /\ txn = "idle"

\* Both have happened on the connection: a call returned False with rows of
\* its own committed, and a call returned True with a row of its own lost.
C23_Witness ==
    /\ shared.leaked
    /\ shared.lost

\* ------------------------------------------------------------ transactions
\* C24: every repository call that executed a statement, a read as much as
\* a write, has committed or rolled back when it returns or raises, and
\* leaves the connection with no open and no failed transaction.
C24_CallEndsItsTransaction ==
    (lastOp.op # "none" /\ Count(lastOp.calls, "execute") > 0) =>
        /\ Count(lastOp.calls, "commit") + Count(lastOp.calls, "rollback") > 0
        /\ txn = "idle"

\* ------------------------------------------------------------ listings
\* the stored rows in an order, mapped as the listing maps them
Listed(rows) ==
    IF lastOp.op = "get_all_miners" THEN [i \in DOMAIN rows |-> map_to_miner(rows[i])]
    ELSE [i \in DOMAIN rows |-> map_to_repository(rows[i])]
\* rows a and b stand in ascending order of the listing's sort key
Ascending(a, b) ==
    IF lastOp.op = "get_all_miners" THEN a.uid <= b.uid ELSE TextLeq(a.full_name, b.full_name)
\* every order of the stored rows that is ascending in the sort key
SortedOrders ==
    LET table == IF lastOp.op = "get_all_miners" THEN lastOp.before.miners
                 ELSE lastOp.before.repositories
    IN  {s \in Perms(table) : \A i, j \in DOMAIN s : i < j => Ascending(s[i], s[j])}

\* C25: get_all_miners and get_all_repositories on a working connection
\* return every stored row once, in ascending order of uid or full_name, and
\* the stored set fixes the sequence: no other ascending order of the same
\* rows could have been returned, also when miners share a uid.
C25_ListingIsDeterministic ==
    (lastOp.op \in {"get_all_miners", "get_all_repositories"} /\ Healthy) =>
        /\ lastOp.out = "returned"
        /\ \E s \in SortedOrders : lastOp.ret = Listed(s)
        /\ \A s \in SortedOrders : lastOp.ret = Listed(s)

\* ------------------------------------------------------------ bulk stores
\* C26: a store_*_bulk call on non-empty input is all-or-nothing: it
\* returns the count after exactly one commit, or it returns 0 with storage
\* as it was before the call; and since every row meets the conflict policy
\* on its own, a call that reached storage on a working connection succeeds
\* whatever keys its input repeats.
C26_BulkAllOrNothing ==
    (lastOp.op \in BulkOps /\ InputSize > 0) =>
        /\ \/ Succeeded /\ Count(lastOp.calls, "commit") = 1
           \/ ReportedFailure /\ db = lastOp.before
        /\ (Healthy /\ lastOp.calls # <<>>) => Succeeded

\* ------------------------------------------------------------ file changes
\* the last `call` of a call sequence comes before every `later`
Before(calls, call, later) ==
    \A i, j \in DOMAIN calls : (calls[i] = call /\ calls[j] = later) => i < j

\* C27: set_file_changes_for_pr stores its list in one transaction: True is
\* returned only after one insert was executed for every element and then
\* one commit; when the insert of an element raises, no row of the list is
\* stored afterwards, those executed before it included, and False is
\* returned; an empty list returns True with no call on the connection.
C27_ListInOneTransaction ==
    lastOp.op = "set_file_changes_for_pr" =>
        /\ InputSize = 0 =>
             /\ lastOp.out = "returned" /\ lastOp.ret = TRUE
             /\ lastOp.calls = <<>>
             /\ db = lastOp.before
        /\ (InputSize > 0 /\ Succeeded) =>
             /\ Count(lastOp.calls, "execute") = InputSize
             /\ Count(lastOp.calls, "commit") = 1
             /\ Before(lastOp.calls, "execute", "commit")
             /\ SubmittedKeys \subseteq {FileChangeKey(r) : r \in db.file_changes}
        /\ (/\ InputSize > 0
            /\ \/ lastOp.fault = "execute"
               \/ lastOp.txn = "failed" /\ lastOp.fault \notin {"cursor", "unusable"}) =>
             /\ ReportedFailure
             /\ Count(lastOp.calls, "commit") = 0
             /\ db = lastOp.before

\* The insert of the second of two new elements raised.
C27_Witness ==
    /\ lastOp.op = "set_file_changes_for_pr"
    /\ InputSize = 2
    /\ lastOp.fault = "execute"
    /\ lastOp.calls = <<"cursor", "execute", "execute", "close", "rollback">>
    /\ SubmittedKeys \cap StoredKeys = {}
    /\ Cardinality(SubmittedKeys) = 2
    /\ ReportedFailure
    /\ db = lastOp.before

\* ------------------------------------------------------------ scripts
\* C28: each script is one atomic unit.  Its statements, the fragments
\* between ';' that are not blank, are executed in their order on one
\* cursor; a commit is made once, after the last of them; when reading the
\* script or a statement raised, one rollback is made and no commit, and
\* nothing of the script is added to the schema; and the schema keeps every
\* script committed earlier in the run.
C28_ScriptIsAtomic ==
    LET calls == migrator.calls
        script == migrator.attempted[Len(migrator.attempted)]
    IN  migrator.status # "NotStarted" =>
          /\ Count(calls, "cursor") <= 1
          /\ Count(calls, "commit") <= 1
          /\ Count(calls, "rollback") <= 1
          /\ Count(calls, "execute") <= Statements(script)
          /\ migrator.pending \subseteq Whole(script)
          /\ \A i \in 1..Statements(script) :
               <<script, i>> \in migrator.pending =>
                  \A j \in 1..i : <<script, j>> \in migrator.pending
          /\ Count(calls, "commit") = 1 =>
               /\ Count(calls, "execute") = Statements(script)
               /\ Before(calls, "execute", "commit")
          /\ (Finished /\ migrator.raised \in {"read", "execute"}) =>
               /\ Count(calls, "rollback") = 1
               /\ Count(calls, "commit") = 0
               /\ schema \cap Whole(script) \subseteq migrator.start
          /\ migrator.start \subseteq schema
          /\ \A i \in DOMAIN migrator.committed : Whole(i) \subseteq schema

\* The fourth script, of one statement, failed on a schema holding the
\* three scripts before it.
C28_Witness ==
    /\ migrator.status = "Failed"
    /\ migrator.raised = "execute"
    /\ migrator.attempted = <<1, 2, 3, 4>>
    /\ migrator.calls = <<"cursor", "execute", "close", "rollback">>
    /\ schema = Whole(1) \cup Whole(2) \cup Whole(3)

\* --------------------------------------------------- latest evaluation
\* the rows of one miner
OfMiner(table, uid, hotkey) == {r \in table : r.uid = uid /\ r.hotkey = hotkey}
\* row `o` comes no later than row `r`: an older timestamp, or the same
\* timestamp and no greater id
NoLater(o, r) ==
    \/ o.evaluation_timestamp < r.evaluation_timestamp
    \/ o.evaluation_timestamp = r.evaluation_timestamp /\ o.id <= r.id

\* C29: a successful set_miner_evaluation adds one row and keeps the rows
\* there were, and the latest evaluation of that miner read afterwards is
\* the row just added; get_latest_miner_evaluation(uid, hotkey) answers None
\* when no row has that uid and hotkey, and otherwise the row of that miner
\* that no other row of the miner comes after.
C29_LatestIsNewest ==
    /\ (lastOp.op = "set_miner_evaluation" /\ Succeeded) =>
          LET before == lastOp.before.miner_evaluations
              added == db.miner_evaluations \ before
              mine == OfMiner(db.miner_evaluations, lastOp.arg.uid, lastOp.arg.hotkey)
          IN  /\ before \subseteq db.miner_evaluations
              /\ Cardinality(db.miner_evaluations) = Cardinality(before) + 1
              /\ \A row \in added :
                   /\ row.total_prs = total_prs(lastOp.arg)
                   /\ \A latest \in FetchOne(Latest(mine)) :
                        LET read == get_miner_evaluation(db, txn, latest, "none")
                        IN  /\ read.out = "returned"
                            /\ read.ret = Some(map_to_miner_evaluation(row))
    /\ (lastOp.op = "get_latest_miner_evaluation" /\ lastOp.out = "returned") =>
          LET mine == OfMiner(lastOp.before.miner_evaluations,
                              lastOp.arg[1], lastOp.arg[2])
          IN  IF mine = {} THEN lastOp.ret = None
              ELSE \E r \in mine :
                      /\ lastOp.ret = Some(map_to_miner_evaluation(r))
                      /\ \A o \in mine : NoLater(o, r)

\* An evaluation stored for a miner who had one of the same timestamp.
C29_Witness ==
    /\ lastOp.op = "set_miner_evaluation"
    /\ Succeeded
    /\ \E old \in lastOp.before.miner_evaluations :
         \E new \in db.miner_evaluations \ lastOp.before.miner_evaluations :
            /\ old.uid = new.uid
            /\ old.hotkey = new.hotkey
            /\ old.evaluation_timestamp = new.evaluation_timestamp

\* ------------------------------------------ reads behind the repositories
PullRequestReads ==
    {"get_pull_request", "get_pull_requests_by_repository", "get_pull_requests_by_miner",
     "get_pull_request_with_file_changes"}
\* a repositories row of that full name is stored in d
RepositoryPresent(d, repository_full_name) ==
    \E r \in d.repositories : r.full_name = repository_full_name
\* the pull_requests rows of d under the key of pull request p
UnderKey(d, p) == {r \in d.pull_requests : PullRequestKey(r) = PullRequestKey(p)}
\* what get_pull_request(p.number, p.repository_full_name) answers now
ReadOfStored(p) ==
    {get_pull_request(db, txn, row, "none")
        : row \in FetchOne(UnderKey(db, p) \cap JoinedPullRequests(db))}
\* every pull request a pull-request read handed back has its repositories row
ReadsOnlyJoined ==
    (lastOp.op \in PullRequestReads /\ lastOp.out = "returned") =>
        \A i \in DOMAIN lastOp.ret :
            RepositoryPresent(lastOp.before, lastOp.ret[i].repository_full_name)

====
